---- MODULE Spec2Model ----
(***************************************************************************)
(* Stellar-Explain: the explanation engine (packages/core/src/explain,     *)
(* packages/core/src/models) and the /tx/{hash} request handler             *)
(* (packages/core/src/routes/tx.rs).                                        *)
(*                                                                         *)
(* Rust strings are TLA+ strings built with \o, exactly as format! builds  *)
(* them.  Option<T> is a record: [some |-> FALSE] or [some |-> TRUE, v].   *)
(* u64 arithmetic keeps a width: U64_BITS bits stand for the 64 of the     *)
(* program, so that `base_fee * 5` can leave the range as it can there.    *)
(***************************************************************************)
EXTENDS Integers, Sequences, FiniteSets, TLC

VARIABLES
    call,             \* the invocation under study: [fn |-> name, ...arguments]
    ret,              \* its outcome, [kind |-> "none"] until it has returned
    pc,               \* "ready" before the call, "returned" after
    overflow_checks,  \* build profile: TRUE = debug (overflow panics), FALSE = release (wraps)
    h_pc,             \* get_tx_explanation: position of the handler
    path_hash,        \* get_tx_explanation: the hash of the path, a sequence of code points
    hash_valid,       \* get_tx_explanation: is_valid_transaction_hash(hash)
    tx_res,           \* get_tx_explanation: state of fetch_transaction
    ops_res,          \* get_tx_explanation: state of fetch_operations
    fee_res,          \* get_tx_explanation: state of fetch_fee_stats
    explainer_calls,  \* get_tx_explanation: the calls made to the explainer, in order
    resolved_order,   \* get_tx_explanation: the fetches in the order they resolved
    response,         \* get_tx_explanation: the handler's return value
    cache,            \* TransactionCache: the map behind the RwLock, key -> Option<CacheEntry>
    now,              \* TransactionCache: the monotonic clock read by Instant::now()
    threads,          \* TransactionCache: per thread, its position, its call and the call's result
    last_insert       \* TransactionCache: history, per key the value of the latest insert

vars == <<call, ret, pc, overflow_checks,
          h_pc, path_hash, hash_valid, tx_res, ops_res, fee_res, explainer_calls,
          resolved_order, response,
          cache, now, threads, last_insert>>

engine_vars == <<call, ret, pc, overflow_checks>>
handler_vars == <<h_pc, path_hash, hash_valid, tx_res, ops_res, fee_res, explainer_calls,
          resolved_order, response>>
cache_vars == <<cache, now, threads, last_insert>>

(***************************************************************************)
(* Bounds                                                                  *)
(***************************************************************************)
\* Width, in bits, standing for the 64 bits of u64.
U64_BITS == 17
\* Every fee from 0 to MaxSmallFee is tried, besides the sample fees.
MaxSmallFee == 7
\* Longest generated operation list of a transaction.
MaxOps == 3
\* Largest payment / skipped count handed to build_transaction_summary.
MaxCount == 5
\* Longest intermediate path of a path payment.
MaxPath == 3
\* Longest list of changes handed to join_changes.
MaxChanges == 4
\* Longest text handed to Memo::text, in characters.
MaxTextChars == 30
\* Latest reading of the monotonic clock, in ticks.
MaxClock == 2

RECURSIVE Pow2(_)
Pow2(n) == IF n = 0 THEN 1 ELSE 2 * Pow2(n - 1)

U64_MODULUS == Pow2(U64_BITS)
U64_MAX == U64_MODULUS - 1

(***************************************************************************)
(* Option<T>                                                               *)
(***************************************************************************)
None == [some |-> FALSE]
Some(x) == [some |-> TRUE, v |-> x]

unwrap_or(o, d) == IF o.some THEN o.v ELSE d

\* Option::or
or_else(a, b) == IF a.some THEN a ELSE b

max(a, b) == IF a >= b THEN a ELSE b

\* The em dash of the fee messages (U+2014), written in ASCII.
EM_DASH == "--"

(***************************************************************************)
(* models/fee.rs                                                           *)
(***************************************************************************)
FeeStats_new(base_fee, min_fee, max_fee, mode_fee, p90_fee) ==
    [base_fee |-> base_fee, min_fee |-> min_fee, max_fee |-> max_fee,
     mode_fee |-> mode_fee, p90_fee |-> p90_fee]

default_network_fees == FeeStats_new(100, 100, 100000, 100, 1000)

\* u64 `a * b` of a release build: the product modulo 2^64.
wrapping_mul(a, b) == (a * b) % U64_MODULUS

\* u64 `a * b` leaves the range: a debug build panics here.
mul_overflows(a, b) == a * b > U64_MAX

\* `fee > self.base_fee * 5`, as a build without overflow checks computes it.
is_high_fee(stats, fee) == fee > wrapping_mul(stats.base_fee, 5)

\* is_high_fee panics instead of returning (overflow checks on).
is_high_fee_panics(stats, checks) == checks /\ mul_overflows(stats.base_fee, 5)

\* {:07}: n < 10^7 written with exactly seven digits.
Pad7(n) ==
    IF n < 10 THEN "000000" \o ToString(n)
    ELSE IF n < 100 THEN "00000" \o ToString(n)
    ELSE IF n < 1000 THEN "0000" \o ToString(n)
    ELSE IF n < 10000 THEN "000" \o ToString(n)
    ELSE IF n < 100000 THEN "00" \o ToString(n)
    ELSE IF n < 1000000 THEN "0" \o ToString(n)
    ELSE ToString(n)

(***************************************************************************)
(* stroops_to_xlm at its true width.  A u64 is a sequence of at most 64     *)
(* bits, most significant first and without leading zeros (0 is <<>>); an   *)
(* f64 is [m, e] and stands for m * 2^e, m a bit sequence of at most 53     *)
(* significant bits.  The three steps of the code are IEEE 754 operations:  *)
(* `stroops as f64`, the division by 10_000_000.0 and the formatting with   *)
(* seven decimals, each rounding to nearest, ties to even.                  *)
(***************************************************************************)
\* Bits of the mantissa of an f64, hidden bit included.
F64_MANTISSA_BITS == 53
\* Stroops per XLM: the divisor 10_000_000.0.
STROOPS_PER_XLM == 10000000

RECURSIVE to_bits(_)
to_bits(n) == IF n = 0 THEN <<>> ELSE Append(to_bits(n \div 2), n % 2)

\* Bit i of b; the positions outside b hold zeros.
bit_at(b, i) == IF i \in DOMAIN b THEN b[i] ELSE 0

\* b without its leading zeros.
strip_zeros(b) ==
    IF \A i \in DOMAIN b : b[i] = 0 THEN <<>>
    ELSE LET first == CHOOSE i \in DOMAIN b : b[i] = 1 /\ \A j \in 1..(i - 1) : b[j] = 0
         IN SubSeq(b, first, Len(b))

\* b + 1
bits_inc(b) ==
    IF \A i \in DOMAIN b : b[i] = 1 THEN <<1>> \o [i \in DOMAIN b |-> 0]
    ELSE LET last == CHOOSE i \in DOMAIN b :
                         b[i] = 0 /\ \A j \in (i + 1)..Len(b) : b[j] = 1
         IN [i \in DOMAIN b |-> IF i < last THEN b[i] ELSE IF i = last THEN 1 ELSE 0]

any_one(b) == \E i \in DOMAIN b : b[i] = 1

\* The f64 nearest to b (plus a fraction below one unit when sticky): the
\* first 53 bits, rounded by the rest, ties to even.
round_to_f64(b, sticky) ==
    IF Len(b) <= F64_MANTISSA_BITS THEN [m |-> b, e |-> 0]
    ELSE LET top == SubSeq(b, 1, F64_MANTISSA_BITS)
             guard == b[F64_MANTISSA_BITS + 1]
             rest == sticky \/ any_one(SubSeq(b, F64_MANTISSA_BITS + 2, Len(b)))
             up == guard = 1 /\ (rest \/ top[F64_MANTISSA_BITS] = 1)
         IN [m |-> IF up THEN bits_inc(top) ELSE top,
             e |-> Len(b) - F64_MANTISSA_BITS]

\* `stroops as f64`
u64_as_f64(b) == round_to_f64(b, FALSE)

\* The arithmetic below reads its operands seven bits at a time: a remainder
\* below 10^7 followed by seven more bits stays below 2^31.
CHUNK_BITS == 7
CHUNK_BASE == 128

\* The number written by the bits lo .. lo + 6 of b.
chunk_value(b, lo) ==
    64 * bit_at(b, lo) + 32 * bit_at(b, lo + 1) + 16 * bit_at(b, lo + 2)
        + 8 * bit_at(b, lo + 3) + 4 * bit_at(b, lo + 4) + 2 * bit_at(b, lo + 5)
        + bit_at(b, lo + 6)

\* The seven bits of a number below 128.
chunk_bits(d) ==
    <<(d \div 64) % 2, (d \div 32) % 2, (d \div 16) % 2, (d \div 8) % 2,
      (d \div 4) % 2, (d \div 2) % 2, d % 2>>

chunks_of(len) == (len + CHUNK_BITS - 1) \div CHUNK_BITS

\* The quotient of a mantissa by 10^7 is computed to this many bits behind
\* the binary point: 1/10^7 starts with 23 zeros there, and 54 bits behind
\* them decide the rounding.
DIV_FRACTION_BITS == 84

RECURSIVE long_div(_, _)
\* Long division of b (followed by zeros) by STROOPS_PER_XLM over the first c
\* chunks: the quotient q, as bits, and the remainder r.
long_div(b, c) ==
    IF c = 0 THEN [q |-> <<>>, r |-> 0]
    ELSE LET p == long_div(b, c - 1)
             t == CHUNK_BASE * p.r + chunk_value(b, CHUNK_BITS * (c - 1) + 1)
         IN [q |-> p.q \o chunk_bits(t \div STROOPS_PER_XLM),
             r |-> t % STROOPS_PER_XLM]

\* `x / 10_000_000.0`: the quotient, exact to DIV_FRACTION_BITS bits and a
\* remainder, rounded to the nearest f64.
f64_div_stroops_per_xlm(x) ==
    LET c == chunks_of(Len(x.m) + DIV_FRACTION_BITS)
        k == CHUNK_BITS * c - Len(x.m)
        d == long_div(x.m, c)
        rounded == round_to_f64(strip_zeros(d.q), d.r # 0)
    IN IF x.m = <<>> THEN x
       ELSE [m |-> rounded.m, e |-> x.e + rounded.e - k]

RECURSIVE bits_to_limbs(_, _)
\* The integer written by b, read from the chunk that ends at its last bit
\* back to the c-th chunk before it, as hi * 10^7 + lo.
bits_to_limbs(b, c) ==
    IF c = 0 THEN [hi |-> 0, lo |-> 0]
    ELSE LET n == chunks_of(Len(b))
             p == bits_to_limbs(b, c - 1)
             l == CHUNK_BASE * p.lo
                      + chunk_value(b, Len(b) - CHUNK_BITS * (n - c + 1) + 1)
         IN [hi |-> CHUNK_BASE * p.hi + l \div STROOPS_PER_XLM,
             lo |-> l % STROOPS_PER_XLM]

\* The decimal digits of the integer written by b.
bits_to_decimal(b) ==
    LET whole == bits_to_limbs(b, chunks_of(Len(b)))
    IN IF whole.hi = 0 THEN ToString(whole.lo)
       ELSE ToString(whole.hi) \o Pad7(whole.lo)

RECURSIVE frac_scale(_, _)
\* 10^7 times the binary fraction written by the chunks c, c + 1, ... of b,
\* as i + r/2 + (a rest below 1/2 that is not zero iff s).
frac_scale(b, c) ==
    IF c > chunks_of(Len(b)) THEN [i |-> 0, r |-> 0, s |-> FALSE]
    ELSE LET t == frac_scale(b, c + 1)
             u == chunk_value(b, CHUNK_BITS * (c - 1) + 1) * STROOPS_PER_XLM + t.i
         IN [i |-> u \div CHUNK_BASE,
             r |-> (u % CHUNK_BASE) \div 64,
             s |-> u % 64 # 0 \/ t.r = 1 \/ t.s]

\* format!("{:.7}", x): the decimal expansion of x with seven decimals, the
\* last one rounded to nearest, ties to even.
format_f64_7(x) ==
    LET f == IF x.e < 0 THEN 0 - x.e ELSE 0
        n == Len(x.m)
        int_bits == IF x.e >= 0 THEN x.m \o [j \in 1..x.e |-> 0]
                    ELSE IF n > f THEN SubSeq(x.m, 1, n - f) ELSE <<>>
        frac_bits == IF x.e >= 0 THEN <<>>
                     ELSE IF n > f THEN SubSeq(x.m, n - f + 1, n)
                     ELSE [j \in 1..(f - n) |-> 0] \o x.m
        sc == frac_scale(frac_bits, 1)
        up == sc.r = 1 /\ (sc.s \/ sc.i % 2 = 1)
        digits == IF up THEN sc.i + 1 ELSE sc.i
        carry == digits = STROOPS_PER_XLM
    IN bits_to_decimal(IF carry THEN bits_inc(int_bits) ELSE int_bits)
       \o "." \o Pad7(IF carry THEN 0 ELSE digits)

\* stroops_to_xlm on the bits of a u64:
\* `let xlm = stroops as f64 / 10_000_000.0; format!("{:.7}", xlm)`.
stroops_to_xlm_bits(b) == format_f64_7(f64_div_stroops_per_xlm(u64_as_f64(b)))

\* stroops_to_xlm on the fees of the model, all of them far below 2^52: there
\* the f64 quotient rounds to the exact seven-decimal value (see
\* SmallStroopsAreExact), and the result is written directly.
stroops_to_xlm(stroops) ==
    ToString(stroops \div 10000000) \o "." \o Pad7(stroops % 10000000)

(***************************************************************************)
(* explain/transaction.rs: explain_fee                                     *)
(***************************************************************************)
explain_fee(fee_charged, fee_stats) ==
    LET xlm == stroops_to_xlm(fee_charged) IN
    IF ~fee_stats.some
    THEN "A fee of " \o xlm \o " XLM was charged."
    ELSE IF is_high_fee(fee_stats.v, fee_charged)
         THEN LET multiplier == fee_charged \div max(fee_stats.v.base_fee, 1) IN
              "A fee of " \o xlm \o " XLM was charged. This is above average "
                  \o EM_DASH \o " " \o ToString(multiplier) \o "x the base fee."
         ELSE "A fee of " \o xlm \o " XLM was charged. This is a standard network fee."

explain_fee_panics(fee_charged, fee_stats, checks) ==
    fee_stats.some /\ is_high_fee_panics(fee_stats.v, checks)

(***************************************************************************)
(* services/label.rs                                                       *)
(***************************************************************************)
COINBASE == "GCOINBASEAAAAAAAAAAAAAAAAAAAAAAAAAAAAAAAAAAAAAAAAAAAAAA"
BINANCE  == "GBINANCEAAAAAAAAAAAAAAAAAAAAAAAAAAAAAAAAAAAAAAAAAAAAAAA"
KRAKEN   == "GKRAKENAAAAAAAAAAAAAAAAAAAAAAAAAAAAAAAAAAAAAAAAAAAAAAA"
\* An address that differs from KRAKEN by case and surrounding blanks only.
KRAKEN_LOWER_PADDED == "  gkrakenaaaaaaaaaaaaaaaaaaaaaaaaaaaaaaaaaaaaaaaaaaaaaaa "
\* Addresses the table does not know.
NOT_IN_MAP   == "GNOTINMAPAAAAAAAAAAAAAAAAAAAAAAAAAAAAAAAAAAAAAAAAAAAAAA"
DEST_UNKNOWN == "GDESTUNKNOWNAAAAAAAAAAAAAAAAAAAAAAAAAAAAAAAAAAAAAAAAAAA"

\* address.trim().to_ascii_uppercase(), on the addresses of the model: all of
\* them are trimmed upper case already but the two listed.
trim_to_ascii_uppercase(address) ==
    CASE address = KRAKEN_LOWER_PADDED -> KRAKEN
      [] address = "Unknown" -> "UNKNOWN"
      [] OTHER -> address

resolve_label(address) ==
    LET normalized == trim_to_ascii_uppercase(address) IN
    CASE normalized = "GAAAAAAAAAAAAAAAAAAAAAAAAAAAAAAAAAAAAAAAAAAAAAAAAAAAAWHF" -> Some("Stellar Foundation")
      [] normalized = "GAAAAAAAAAAAAAAAAAAAAAAAAAAAAAAAAAAAAAAAAAAAAAAAAAAAH6H5" -> Some("SDF Distribution")
      [] normalized = BINANCE -> Some("Binance")
      [] normalized = COINBASE -> Some("Coinbase")
      [] normalized = KRAKEN -> Some("Kraken")
      [] normalized = "GROBINHOODAAAAAAAAAAAAAAAAAAAAAAAAAAAAAAAAAAAAAAAAAAAAA" -> Some("Robinhood")
      [] normalized = "GANCHORAGEAAAAAAAAAAAAAAAAAAAAAAAAAAAAAAAAAAAAAAAAAAAAA" -> Some("Anchorage Digital")
      [] normalized = "GUSDCISSUERAAAAAAAAAAAAAAAAAAAAAAAAAAAAAAAAAAAAAAAAAAAA" -> Some("USDC Issuer (Circle)")
      [] normalized = "GSTRONGHOLDAAAAAAAAAAAAAAAAAAAAAAAAAAAAAAAAAAAAAAAAAAAA" -> Some("Stronghold")
      [] normalized = "GTEMPOEUROAAAAAAAAAAAAAAAAAAAAAAAAAAAAAAAAAAAAAAAAAAAAA" -> Some("Tempo")
      [] normalized = "GLOBSTRVAULTAAAAAAAAAAAAAAAAAAAAAAAAAAAAAAAAAAAAAAAAAAA" -> Some("LOBSTR Vault")
      [] OTHER -> None

(***************************************************************************)
(* explain/operation/payment.rs                                            *)
(***************************************************************************)
\* format_asset(op: &PaymentOperation)
payment_format_asset(op) ==
    IF op.asset_type = "native" THEN "XLM (native)"
    ELSE IF op.asset_code.some
         THEN IF op.asset_issuer.some
              THEN op.asset_code.v \o " (" \o op.asset_issuer.v \o ")"
              ELSE op.asset_code.v
         ELSE "Unknown"

\* A display that replaces a known address by its label.
format_account_for_summary_mutant_label_only(address) ==
    IF address = "Unknown" THEN "Unknown"
    ELSE LET label == resolve_label(address) IN
         IF label.some THEN label.v ELSE address

format_account_for_summary(address) ==
    IF address = "Unknown" THEN "Unknown"
    ELSE LET label == resolve_label(address) IN
         IF label.some THEN label.v \o " (" \o address \o ")" ELSE address

explain_payment(op) ==
    LET asset == payment_format_asset(op)
        from == unwrap_or(op.source_account, "Unknown")
        to == op.destination
        from_display == format_account_for_summary(from)
        to_display == format_account_for_summary(to)
        summary == from_display \o " sent " \o op.amount \o " " \o asset \o " to " \o to_display
    IN [summary |-> summary, from |-> from, to |-> to, asset |-> asset,
        amount |-> op.amount, fee_note |-> None]

\* explain_payment_with_fee; `high` is what network_fees.is_high_fee(fee_charged)
\* returned.
explain_payment_with_fee_when(op, fee_charged, network_fees, high) ==
    LET asset == payment_format_asset(op)
        from == unwrap_or(op.source_account, "Unknown")
        to == op.destination
        from_display == format_account_for_summary(from)
        to_display == format_account_for_summary(to)
        summary == from_display \o " sent " \o op.amount \o " " \o asset \o " to " \o to_display
        xlm == stroops_to_xlm(fee_charged)
        fee_note ==
            IF high
            THEN LET multiplier == fee_charged \div max(network_fees.base_fee, 1) IN
                 Some("Fee paid: " \o xlm \o " XLM (above average " \o EM_DASH \o " "
                          \o ToString(multiplier) \o "x base fee).")
            ELSE Some("Fee paid: " \o xlm \o " XLM (standard).")
    IN [summary |-> summary, from |-> from, to |-> to, asset |-> asset,
        amount |-> op.amount, fee_note |-> fee_note]

\* A fee note that calls a fee of exactly five base fees high.
explain_payment_with_fee_mutant_high_at_five(op, fee_charged, network_fees) ==
    explain_payment_with_fee_when(op, fee_charged, network_fees,
                                  fee_charged >= wrapping_mul(network_fees.base_fee, 5))

explain_payment_with_fee(op, fee_charged, network_fees) ==
    explain_payment_with_fee_when(op, fee_charged, network_fees,
                                  is_high_fee(network_fees, fee_charged))

(***************************************************************************)
(* models/operation.rs                                                     *)
(***************************************************************************)
\* format_asset(asset_type, asset_code, asset_issuer), all three Option<&str>
format_asset_mutant_absent_unknown(asset_type, asset_code, asset_issuer) ==
    IF asset_type = Some("native") THEN "XLM (native)"
    ELSE IF asset_type.some /\ asset_code.some /\ asset_issuer.some
         THEN asset_code.v \o " (" \o asset_issuer.v \o ")"
         ELSE IF asset_type.some /\ asset_code.some THEN asset_code.v
         ELSE "Unknown"

format_asset(asset_type, asset_code, asset_issuer) ==
    IF asset_type = Some("native") \/ asset_type = None THEN "XLM (native)"
    ELSE IF asset_code.some /\ asset_issuer.some
         THEN asset_code.v \o " (" \o asset_issuer.v \o ")"
         ELSE IF asset_code.some /\ ~asset_issuer.some THEN asset_code.v
         ELSE "Unknown"

\* impl From<HorizonOperation> for Operation
\* The `match op.type_i.as_str()` of the conversion; type_i is the scrutinee.
Operation_from_match(op, type_i) ==
    CASE type_i = "payment" ->
           [kind |-> "Payment",
            id |-> op.id,
            source_account |-> or_else(op.from, op.source_account),
            destination |-> unwrap_or(op.to, ""),
            asset_type |-> unwrap_or(op.asset_type, "native"),
            asset_code |-> op.asset_code,
            asset_issuer |-> op.asset_issuer,
            amount |-> unwrap_or(op.amount, "0")]
      [] type_i = "set_options" ->
           [kind |-> "SetOptions",
            id |-> op.id,
            source_account |-> op.source_account,
            inflation_dest |-> op.inflation_dest,
            clear_flags |-> op.clear_flags,
            set_flags |-> op.set_flags,
            master_weight |-> op.master_weight,
            low_threshold |-> op.low_threshold,
            med_threshold |-> op.med_threshold,
            high_threshold |-> op.high_threshold,
            home_domain |-> op.home_domain,
            signer_key |-> op.signer_key,
            signer_weight |-> op.signer_weight]
      [] type_i = "create_account" ->
           [kind |-> "CreateAccount",
            id |-> op.id,
            funder |-> unwrap_or(op.funder, "Unknown"),
            new_account |-> unwrap_or(op.account, ""),
            starting_balance |-> unwrap_or(op.starting_balance, "0")]
      [] type_i = "change_trust" ->
           [kind |-> "ChangeTrust",
            id |-> op.id,
            trustor |-> unwrap_or(op.source_account, "Unknown"),
            asset_code |-> unwrap_or(op.asset_code, ""),
            asset_issuer |-> unwrap_or(op.asset_issuer, ""),
            limit |-> unwrap_or(op.limit, "0")]
      [] type_i = "manage_offer" \/ type_i = "manage_sell_offer" ->
           [kind |-> "ManageOffer",
            id |-> op.id,
            seller |-> unwrap_or(op.source_account, "Unknown"),
            selling_asset |-> format_asset(op.selling_asset_type, op.selling_asset_code,
                                           op.selling_asset_issuer),
            buying_asset |-> format_asset(op.buying_asset_type, op.buying_asset_code,
                                          op.buying_asset_issuer),
            amount |-> unwrap_or(op.amount, "0"),
            price |-> unwrap_or(op.price, ""),
            offer_id |-> unwrap_or(op.offer_id, 0),
            offer_type |-> "Sell"]
      [] type_i = "manage_buy_offer" ->
           [kind |-> "ManageOffer",
            id |-> op.id,
            seller |-> unwrap_or(op.source_account, "Unknown"),
            selling_asset |-> format_asset(op.selling_asset_type, op.selling_asset_code,
                                           op.selling_asset_issuer),
            buying_asset |-> format_asset(op.buying_asset_type, op.buying_asset_code,
                                          op.buying_asset_issuer),
            amount |-> unwrap_or(op.amount, "0"),
            price |-> unwrap_or(op.price, ""),
            offer_id |-> unwrap_or(op.offer_id, 0),
            offer_type |-> "Buy"]
      [] type_i = "path_payment_strict_send" ->
           [kind |-> "PathPayment",
            id |-> op.id,
            source_account |-> or_else(op.from, op.source_account),
            destination |-> unwrap_or(op.to, ""),
            send_asset |-> format_asset(op.source_asset_type, op.source_asset_code,
                                        op.source_asset_issuer),
            send_amount |-> unwrap_or(op.source_amount, "0"),
            dest_asset |-> format_asset(op.asset_type, op.asset_code, op.asset_issuer),
            dest_amount |-> unwrap_or(op.amount, "0"),
            path |-> unwrap_or(op.path, <<>>),
            payment_type |-> "StrictSend"]
      [] type_i = "path_payment_strict_receive" ->
           [kind |-> "PathPayment",
            id |-> op.id,
            source_account |-> or_else(op.from, op.source_account),
            destination |-> unwrap_or(op.to, ""),
            send_asset |-> format_asset(op.source_asset_type, op.source_asset_code,
                                        op.source_asset_issuer),
            send_amount |-> unwrap_or(op.source_amount, "0"),
            dest_asset |-> format_asset(op.asset_type, op.asset_code, op.asset_issuer),
            dest_amount |-> unwrap_or(op.amount, "0"),
            path |-> unwrap_or(op.path, <<>>),
            payment_type |-> "StrictReceive"]
      [] type_i = "clawback" ->
           [kind |-> "Clawback",
            id |-> op.id,
            source_account |-> op.source_account,
            from |-> unwrap_or(op.from, ""),
            asset_code |-> unwrap_or(op.asset_code, ""),
            asset_issuer |-> unwrap_or(op.asset_issuer, ""),
            amount |-> unwrap_or(op.amount, "0")]
      [] type_i = "clawback_claimable_balance" ->
           [kind |-> "ClawbackClaimableBalance",
            id |-> op.id,
            source_account |-> op.source_account,
            balance_id |-> unwrap_or(op.balance_id, "")]
      [] OTHER ->
           [kind |-> "Other", id |-> op.id, operation_type |-> op.type_i]

\* A conversion that lacks the "manage_sell_offer" spelling of the sell offer.
Operation_from_mutant_no_sell_alias(op) ==
    Operation_from_match(op, IF op.type_i = "manage_sell_offer" THEN "" ELSE op.type_i)

Operation_from(op) == Operation_from_match(op, op.type_i)

\* Operation::id
Operation_id(op) ==
    CASE op.kind = "Payment" -> op.id
      [] op.kind = "SetOptions" -> op.id
      [] op.kind = "CreateAccount" -> op.id
      [] op.kind = "ChangeTrust" -> op.id
      [] op.kind = "ManageOffer" -> op.id
      [] op.kind = "PathPayment" -> op.id
      [] op.kind = "Clawback" -> op.id
      [] op.kind = "ClawbackClaimableBalance" -> op.id
      [] op.kind = "Other" -> op.id

Operation_is_payment(op) == op.kind = "Payment"

(***************************************************************************)
(* models/memo.rs, explain/memo.rs                                         *)
(***************************************************************************)
Memo_None == [variant |-> "None"]
Memo_Text(text) == [variant |-> "Text", v |-> text]
\* The number of an ID memo has a field name of its own: it is no string.
Memo_Id(id) == [variant |-> "Id", id |-> id]
Memo_Hash(hash) == [variant |-> "Hash", v |-> hash]
Memo_Return(hash) == [variant |-> "Return", v |-> hash]

(***************************************************************************)
(* Memo::text.  The argument is a sequence of Unicode scalar values, so    *)
(* that the bytes of its UTF-8 encoding can be counted.                    *)
(***************************************************************************)
\* Most bytes a text memo may hold.
MEMO_TEXT_MAX_BYTES == 28

\* Bytes of the UTF-8 encoding of one scalar value.
utf8_len(c) ==
    IF c < 128 THEN 1 ELSE IF c < 2048 THEN 2 ELSE IF c < 65536 THEN 3 ELSE 4

RECURSIVE as_bytes_len(_)
\* text.as_bytes().len()
as_bytes_len(text) ==
    IF text = <<>> THEN 0 ELSE utf8_len(Head(text)) + as_bytes_len(Tail(text))

\* A constructor that counts characters, not bytes.
Memo_text_mutant_counts_chars(text) ==
    IF Len(text) <= MEMO_TEXT_MAX_BYTES THEN Some(Memo_Text(text)) ELSE None

\* Memo::text
Memo_text(text) ==
    IF as_bytes_len(text) <= MEMO_TEXT_MAX_BYTES THEN Some(Memo_Text(text)) ELSE None

\* A 64-character hex hash, with its first and last eight characters.
SAMPLE_HASH == "abcdef0123456789abcdef0123456789abcdef0123456789abcdef0123456789"
SAMPLE_HASH_FIRST8 == "abcdef01"
SAMPLE_HASH_LAST8 == "23456789"

\* format_hash: &hash[..8] and &hash[hash.len()-8..] are known for SAMPLE_HASH,
\* the one hash of the model longer than 20 characters.
format_hash(hash) ==
    IF Len(hash) > 20
    THEN SAMPLE_HASH_FIRST8 \o "..." \o SAMPLE_HASH_LAST8
    ELSE hash

\* An explainer that has nothing to say about ID memos.
explain_memo_mutant_id_silent(memo) ==
    CASE memo.variant = "None" -> None
      [] memo.variant = "Text" ->
           Some("This transaction includes a text memo: \"" \o memo.v \o "\"")
      [] memo.variant = "Id" -> None
      [] memo.variant = "Hash" ->
           Some("This transaction includes a hash memo: " \o format_hash(memo.v)
                \o ". This is typically used to reference a document, contract, or other data.")
      [] memo.variant = "Return" ->
           Some("This transaction includes a return memo: " \o format_hash(memo.v)
                \o ". This indicates a refund or return transaction.")

explain_memo(memo) ==
    CASE memo.variant = "None" -> None
      [] memo.variant = "Text" ->
           Some("This transaction includes a text memo: \"" \o memo.v \o "\"")
      [] memo.variant = "Id" ->
           Some("This transaction includes an ID memo: " \o ToString(memo.id)
                \o ". This is typically used as a reference number, customer ID, or invoice number.")
      [] memo.variant = "Hash" ->
           Some("This transaction includes a hash memo: " \o format_hash(memo.v)
                \o ". This is typically used to reference a document, contract, or other data.")
      [] memo.variant = "Return" ->
           Some("This transaction includes a return memo: " \o format_hash(memo.v)
                \o ". This indicates a refund or return transaction.")

(***************************************************************************)
(* models/transaction.rs                                                   *)
(***************************************************************************)
Transaction_new(hash, successful, fee_charged, operations, memo) ==
    [hash |-> hash, successful |-> successful, fee_charged |-> fee_charged,
     operations |-> operations, memo |-> memo]

\* A filter that collects the payments last to first.
payment_operations_mutant_reversed(tx) ==
    LET kept == SelectSeq(tx.operations, LAMBDA op : op.kind = "Payment")
    IN [i \in 1..Len(kept) |-> kept[Len(kept) + 1 - i]]

\* Transaction::payment_operations: filter_map over the operations, in order
payment_operations(tx) ==
    SelectSeq(tx.operations, LAMBDA op : op.kind = "Payment")

\* Transaction::payment_count: filter(matches!(op, Payment)).count()
payment_count_mutant_not_other(tx) ==
    Cardinality({i \in 1..Len(tx.operations) : tx.operations[i].kind # "Other"})

payment_count(tx) ==
    Cardinality({i \in 1..Len(tx.operations) : tx.operations[i].kind = "Payment"})

(***************************************************************************)
(* explain/transaction.rs                                                  *)
(***************************************************************************)
Err(e) == [ok |-> FALSE, err |-> e]
Ok(x) == [ok |-> TRUE, value |-> x]

build_transaction_summary_mutant_plural(successful, payment_cnt, skipped) ==
    LET status == IF successful THEN "successful" ELSE "failed" IN
    IF payment_cnt = 0
    THEN "This " \o status \o " transaction contains " \o ToString(skipped)
             \o " operations that Stellar Explain does not yet support."
    ELSE LET payment_text == ToString(payment_cnt) \o " payments"
             head == "This " \o status \o " transaction contains " \o payment_text
         IN IF skipped > 0
            THEN head \o ". " \o ToString(skipped) \o " other operations were skipped" \o "."
            ELSE head \o "."

build_transaction_summary(successful, payment_cnt, skipped) ==
    LET status == IF successful THEN "successful" ELSE "failed" IN
    IF payment_cnt = 0
    THEN LET op_word == IF skipped = 1 THEN "operation" ELSE "operations" IN
         "This " \o status \o " transaction contains " \o ToString(skipped) \o " "
             \o op_word \o " that Stellar Explain does not yet support."
    ELSE LET payment_text == IF payment_cnt = 1 THEN "1 payment"
                             ELSE ToString(payment_cnt) \o " payments"
             head == "This " \o status \o " transaction contains " \o payment_text
         IN IF skipped > 0
            THEN LET skipped_text == IF skipped = 1 THEN "1 other operation was skipped"
                                     ELSE ToString(skipped) \o " other operations were skipped"
                 IN head \o ". " \o skipped_text \o "."
            ELSE head \o "."

explain_transaction(transaction, fee_stats) ==
    LET total_operations == Len(transaction.operations) IN
    IF total_operations = 0 THEN Err("EmptyTransaction")
    ELSE LET payment_cnt == payment_count(transaction)
             skipped_operations == total_operations - payment_cnt
             payments == payment_operations(transaction)
             payment_explanations ==
                 [i \in 1..Len(payments) |-> explain_payment(payments[i])]
             summary == build_transaction_summary(transaction.successful,
                                                  payment_cnt, skipped_operations)
             memo_explanation ==
                 IF transaction.memo.some THEN explain_memo(transaction.memo.v) ELSE None
             fee_explanation == explain_fee(transaction.fee_charged, fee_stats)
         IN Ok([transaction_hash |-> transaction.hash,
                successful |-> transaction.successful,
                summary |-> summary,
                payment_explanations |-> payment_explanations,
                skipped_operations |-> skipped_operations,
                memo_explanation |-> memo_explanation,
                fee_explanation |-> fee_explanation])

\* explain_transaction reaches explain_fee and panics there (overflow checks on).
explain_transaction_panics(transaction, fee_stats, checks) ==
    /\ Len(transaction.operations) > 0
    /\ explain_fee_panics(transaction.fee_charged, fee_stats, checks)

(***************************************************************************)
(* explain/operation/manage_offer.rs                                       *)
(***************************************************************************)
\* The body of explain_manage_offer; is_cancel is the condition of its first `if`.
explain_manage_offer_when(op, is_cancel) ==
    IF is_cancel
    THEN [summary |-> op.seller \o " cancelled their existing offer #"
                          \o ToString(op.offer_id),
          seller |-> op.seller,
          selling_asset |-> op.selling_asset,
          buying_asset |-> op.buying_asset,
          amount |-> op.amount,
          price |-> op.price,
          offer_id |-> op.offer_id,
          action |-> "cancel"]
    ELSE LET action == IF op.offer_type = "Sell" THEN "sell" ELSE "buy"
             base_asset == IF op.offer_type = "Sell" THEN op.selling_asset
                           ELSE op.buying_asset
             quote_asset == IF op.offer_type = "Sell" THEN op.buying_asset
                            ELSE op.selling_asset
             summary == op.seller \o " placed an order to " \o action \o " " \o op.amount
                            \o " " \o base_asset \o " for " \o quote_asset
                            \o " at a price of " \o op.price \o " " \o quote_asset
                            \o " per " \o base_asset
             op_action == IF op.offer_id = 0 THEN "new" ELSE "update"
         IN [summary |-> summary,
             seller |-> op.seller,
             selling_asset |-> op.selling_asset,
             buying_asset |-> op.buying_asset,
             amount |-> op.amount,
             price |-> op.price,
             offer_id |-> op.offer_id,
             action |-> op_action]

\* An explainer that recognises the cancellation of sell offers only.
explain_manage_offer_mutant_sell_only(op) ==
    explain_manage_offer_when(op, op.amount = "0" /\ op.offer_id > 0
                                      /\ op.offer_type = "Sell")

explain_manage_offer(op) ==
    explain_manage_offer_when(op, op.amount = "0" /\ op.offer_id > 0)

(***************************************************************************)
(* explain/operation/change_trust.rs                                       *)
(***************************************************************************)
\* The body of explain_change_trust after `let is_removal = ...`.
explain_change_trust_when(op, is_removal) ==
    LET summary ==
            IF is_removal
            THEN op.trustor \o " removed trust for " \o op.asset_code \o "."
            ELSE op.trustor \o " opted in to hold up to " \o op.limit \o " "
                     \o op.asset_code \o " issued by " \o op.asset_issuer \o "."
    IN [summary |-> summary,
        trustor |-> op.trustor,
        asset_code |-> op.asset_code,
        asset_issuer |-> op.asset_issuer,
        limit |-> op.limit,
        is_removal |-> is_removal]

\* An explainer that reads the limit as a number: "0.0000000" is a removal too.
explain_change_trust_mutant_numeric_zero(op) ==
    explain_change_trust_when(op, op.limit \in {"0", "0.0000000"})

explain_change_trust(op) == explain_change_trust_when(op, op.limit = "0")

(***************************************************************************)
(* explain/operation/path_payment.rs                                       *)
(***************************************************************************)
\* A description that writes "assets" for every count.
path_description_mutant_always_plural(path) ==
    IF path = <<>> THEN None
    ELSE Some("via " \o ToString(Len(path)) \o " intermediate assets")

\* `let path_description = if op.path.is_empty() { None } else { ... }`
path_description(path) ==
    IF path = <<>> THEN None
    ELSE LET n == Len(path) IN
         Some("via " \o ToString(n) \o " intermediate asset"
                  \o (IF n = 1 THEN "" ELSE "s"))

explain_path_payment(op) ==
    LET sender == unwrap_or(op.source_account, "Unknown")
        description == path_description(op.path)
        conversion ==
            IF op.send_asset = op.dest_asset
            THEN sender \o " sent " \o op.send_amount \o " " \o op.send_asset
                     \o " to " \o op.destination
            ELSE sender \o " sent " \o op.send_amount \o " " \o op.send_asset
                     \o " which was converted to " \o op.dest_amount \o " "
                     \o op.dest_asset \o " received by " \o op.destination
        summary == IF description.some THEN conversion \o " " \o description.v
                   ELSE conversion
        payment_type == IF op.payment_type = "StrictSend" THEN "strict_send"
                        ELSE "strict_receive"
    IN [summary |-> summary,
        sender |-> sender,
        destination |-> op.destination,
        send_asset |-> op.send_asset,
        send_amount |-> op.send_amount,
        dest_asset |-> op.dest_asset,
        dest_amount |-> op.dest_amount,
        path_description |-> description,
        payment_type |-> payment_type]

(***************************************************************************)
(* explain/operation/set_options.rs                                        *)
(***************************************************************************)
RECURSIVE str_join(_, _)
\* [String]::join(sep)
str_join(items, sep) ==
    IF items = <<>> THEN ""
    ELSE IF Len(items) = 1 THEN items[1]
    ELSE items[1] \o sep \o str_join(Tail(items), sep)

\* A join that writes "a, b and c": no comma before the final "and".
join_changes_mutant_no_oxford_comma(changes) ==
    CASE Len(changes) = 0 -> ""
      [] Len(changes) = 1 -> changes[1]
      [] OTHER ->
           str_join(SubSeq(changes, 1, Len(changes) - 1), ", ")
               \o " and " \o changes[Len(changes)]

join_changes(changes) ==
    CASE Len(changes) = 0 -> ""
      [] Len(changes) = 1 -> changes[1]
      [] Len(changes) = 2 -> changes[1] \o " and " \o changes[2]
      [] OTHER ->
           LET all_but_last == str_join(SubSeq(changes, 1, Len(changes) - 1), ", ")
           IN all_but_last \o ", and " \o changes[Len(changes)]

\* A summary that reports a single change as no change.
build_summary_mutant_needs_two(account, changes) ==
    IF Len(changes) <= 1
    THEN account \o " submitted a set_options operation with no recognised changes."
    ELSE account \o " updated their account: " \o join_changes(changes)

build_summary(account, changes) ==
    IF changes = <<>>
    THEN account \o " submitted a set_options operation with no recognised changes."
    ELSE account \o " updated their account: " \o join_changes(changes)

\* `flags & bit != 0` for bit a power of two.
has_flag(flags, bit) == (flags \div bit) % 2 = 1

describe_flags(flags) ==
    LET names == (IF has_flag(flags, 1) THEN <<"AUTH_REQUIRED">> ELSE <<>>)
                 \o (IF has_flag(flags, 2) THEN <<"AUTH_REVOCABLE">> ELSE <<>>)
                 \o (IF has_flag(flags, 4) THEN <<"AUTH_IMMUTABLE">> ELSE <<>>)
                 \o (IF has_flag(flags, 8) THEN <<"CLAWBACK_ENABLED">> ELSE <<>>)
    IN IF names = <<>> THEN ToString(flags) ELSE str_join(names, ", ")

\* A signer key longer than 12 characters, and a shorter one.
SIGNER_LONG == "GBBBBBBBBBBBBBBBBBBBBBBBBBBBBBBBBBBBBBBBBBBBBBBBBBBBBBBB"
SIGNER_SHORT == "GSHORT"

\* shorten_key: &key[..4] and &key[key.len() - 4..] are known for the two keys
\* of the model longer than 12 characters.
shorten_key(key) ==
    IF Len(key) > 12
    THEN CASE key = SIGNER_LONG -> "GBBB" \o "..." \o "BBBB"
           [] key = KRAKEN -> "GKRA" \o "..." \o "AAAA"
    ELSE key

\* explain_set_options; `clear_flags_first` exchanges the two flag tests.
explain_set_options_when(op, clear_flags_first) ==
    LET account == unwrap_or(op.source_account, "Unknown")
        inflation == IF op.inflation_dest.some
                     THEN <<"set inflation destination to " \o op.inflation_dest.v>>
                     ELSE <<>>
        master == IF op.master_weight.some
                  THEN IF op.master_weight.v = 0
                       THEN <<"disabled the master key">>
                       ELSE <<"set master key weight to " \o ToString(op.master_weight.v)>>
                  ELSE <<>>
        low == IF op.low_threshold.some
               THEN <<"set low threshold to " \o ToString(op.low_threshold.v)>>
               ELSE <<>>
        med == IF op.med_threshold.some
               THEN <<"set medium threshold to " \o ToString(op.med_threshold.v)>>
               ELSE <<>>
        high == IF op.high_threshold.some
                THEN <<"set high threshold to " \o ToString(op.high_threshold.v)>>
                ELSE <<>>
        domain == IF op.home_domain.some
                  THEN IF op.home_domain.v = ""
                       THEN <<"cleared the home domain">>
                       ELSE <<"set home domain to " \o op.home_domain.v>>
                  ELSE <<>>
        set_f == IF op.set_flags.some /\ op.set_flags.v > 0
                 THEN <<"enabled account flag(s): " \o describe_flags(op.set_flags.v)>>
                 ELSE <<>>
        clear_f == IF op.clear_flags.some /\ op.clear_flags.v > 0
                   THEN <<"disabled account flag(s): " \o describe_flags(op.clear_flags.v)>>
                   ELSE <<>>
        signer == IF op.signer_key.some
                  THEN LET short_key == shorten_key(op.signer_key.v) IN
                       IF ~op.signer_weight.some
                       THEN <<"modified signer " \o short_key>>
                       ELSE IF op.signer_weight.v = 0
                            THEN <<"removed signer " \o short_key>>
                            ELSE <<"added signer " \o short_key \o " with weight "
                                       \o ToString(op.signer_weight.v)>>
                  ELSE <<>>
        flags == IF clear_flags_first THEN clear_f \o set_f ELSE set_f \o clear_f
        changes == inflation \o master \o low \o med \o high \o domain
                       \o flags \o signer
    IN [summary |-> build_summary(account, changes),
        account |-> account,
        changes |-> changes]

explain_set_options_mutant_clear_flags_first(op) == explain_set_options_when(op, TRUE)

explain_set_options(op) == explain_set_options_when(op, FALSE)

(***************************************************************************)
(* Inputs                                                                  *)
(***************************************************************************)
BOOL == {TRUE, FALSE}

\* Fees: the small ones, those of the tests, and those around u64::MAX / 5.
FeeValues ==
    (0..MaxSmallFee) \cup {100, 250, 500, 501, 600, 1000, 10000}
        \cup {U64_MAX \div 5, U64_MAX \div 5 + 1, U64_MAX}

BaseFees == {0, 1, 100} \cup {U64_MAX \div 5, U64_MAX \div 5 + 1, U64_MAX}

StatsWithBase(base) == FeeStats_new(base, base, base, base, base)

FeeStatsValues == {StatsWithBase(b) : b \in BaseFees} \cup {default_network_fees}

OptFeeStats == {None} \cup {Some(st) : st \in FeeStatsValues}

Addresses == {COINBASE, BINANCE, KRAKEN_LOWER_PADDED, NOT_IN_MAP, DEST_UNKNOWN, "Unknown"}

OptAssetTypes == {None, Some("native"), Some("credit_alphanum4"), Some("liquidity_pool_shares")}
OptAssetCodes == {None, Some("USDC"), Some("")}
OptAssetIssuers == {None, Some("GISSUER")}

PaymentOperation(id, source_account, destination, asset_type, asset_code, asset_issuer, amount) ==
    [kind |-> "Payment", id |-> id, source_account |-> source_account,
     destination |-> destination, asset_type |-> asset_type, asset_code |-> asset_code,
     asset_issuer |-> asset_issuer, amount |-> amount]

PaymentOps ==
    {PaymentOperation("test_id", src, dst, ty, code, issuer, "500.0000000") :
        src \in {None} \cup {Some(a) : a \in Addresses},
        dst \in Addresses \cup {""},
        ty \in {"native", "credit_alphanum4"},
        code \in {None, Some("USDC")},
        issuer \in OptAssetIssuers}

\* A wire record with every optional field absent.
HorizonOperation(id, type_i) ==
    [id |-> id, transaction_hash |-> "abc123", type_i |-> type_i,
     from |-> None, to |-> None, asset_type |-> None, asset_code |-> None,
     asset_issuer |-> None, amount |-> None, source_account |-> None,
     inflation_dest |-> None, clear_flags |-> None, set_flags |-> None,
     master_weight |-> None, low_threshold |-> None, med_threshold |-> None,
     high_threshold |-> None, home_domain |-> None, signer_key |-> None,
     signer_weight |-> None,
     funder |-> None, account |-> None, starting_balance |-> None,
     limit |-> None,
     selling_asset_type |-> None, selling_asset_code |-> None,
     selling_asset_issuer |-> None, buying_asset_type |-> None,
     buying_asset_code |-> None, buying_asset_issuer |-> None,
     price |-> None, offer_id |-> None,
     source_asset_type |-> None, source_asset_code |-> None,
     source_asset_issuer |-> None, source_amount |-> None, path |-> None,
     balance_id |-> None]

\* A wire record with every optional field present.
HorizonOperationFull(id, type_i) ==
    [id |-> id, transaction_hash |-> "abc123", type_i |-> type_i,
     from |-> Some(COINBASE), to |-> Some(BINANCE),
     asset_type |-> Some("credit_alphanum4"), asset_code |-> Some("USDC"),
     asset_issuer |-> Some("GISSUER"), amount |-> Some("25.75"),
     source_account |-> Some(NOT_IN_MAP),
     inflation_dest |-> Some(DEST_UNKNOWN), clear_flags |-> Some(2), set_flags |-> Some(1),
     master_weight |-> Some(0), low_threshold |-> Some(1), med_threshold |-> Some(2),
     high_threshold |-> Some(3), home_domain |-> Some("example.com"),
     signer_key |-> Some(KRAKEN), signer_weight |-> Some(1),
     funder |-> Some(COINBASE), account |-> Some(DEST_UNKNOWN),
     starting_balance |-> Some("100"),
     limit |-> Some("1000"),
     selling_asset_type |-> Some("native"), selling_asset_code |-> None,
     selling_asset_issuer |-> None, buying_asset_type |-> Some("credit_alphanum4"),
     buying_asset_code |-> Some("USDC"), buying_asset_issuer |-> Some("GISSUER"),
     price |-> Some("0.1"), offer_id |-> Some(7),
     source_asset_type |-> Some("native"), source_asset_code |-> None,
     source_asset_issuer |-> None, source_amount |-> Some("10"),
     path |-> Some(<<"USDC (GISSUER)">>),
     balance_id |-> Some("00000000abcdef")]

\* The discriminants the conversion knows, and some it does not.
KnownTypes ==
    {"payment", "set_options", "create_account", "change_trust", "manage_offer",
     "manage_sell_offer", "manage_buy_offer", "path_payment_strict_send",
     "path_payment_strict_receive", "clawback", "clawback_claimable_balance"}
UnknownTypes == {"bump_sequence", "Payment", "path_payment", ""}
WireTypes == KnownTypes \cup UnknownTypes

WireIds == {"1", "2"}

WireOps ==
    LET bases == {HorizonOperation(i, t) : i \in WireIds, t \in WireTypes}
                 \cup {HorizonOperationFull(i, t) : i \in WireIds, t \in WireTypes}
    IN {[b EXCEPT !.from = f, !.source_account = sa, !.asset_type = ty] :
            b \in bases, f \in {None, Some(COINBASE)}, sa \in {None, Some(NOT_IN_MAP)},
            ty \in {None, Some("native"), Some("credit_alphanum4")}}

\* Operations of a transaction: two payments that differ, and one operation of
\* every other kind, as the conversion produces them.
TxOperations ==
    {PaymentOperation("1", Some(COINBASE), BINANCE, "native", None, None, "500.0000000"),
     PaymentOperation("2", None, DEST_UNKNOWN, "credit_alphanum4", Some("USDC"),
                      Some("GISSUER"), "50.0")}
    \cup {Operation_from(HorizonOperationFull("3", t)) :
             t \in {"set_options", "create_account", "change_trust", "manage_sell_offer",
                    "path_payment_strict_send", "clawback", "clawback_claimable_balance",
                    "bump_sequence"}}

RECURSIVE SeqsUpTo(_, _)
SeqsUpTo(S, n) ==
    IF n = 0 THEN {<<>>}
    ELSE LET shorter == SeqsUpTo(S, n - 1)
         IN shorter \cup {Append(q, x) : q \in {r \in shorter : Len(r) = n - 1}, x \in S}

OptMemos == {None, Some(Memo_None), Some(Memo_Text("Invoice #12345"))}

\* Two payments and three unsupported operations.
ScenarioCOperations ==
    <<PaymentOperation("1", None, DEST_UNKNOWN, "native", None, None, "50.0"),
      [kind |-> "Other", id |-> "2", operation_type |-> "create_account"],
      PaymentOperation("3", None, DEST_UNKNOWN, "native", None, None, "25.0"),
      [kind |-> "Other", id |-> "4", operation_type |-> "create_account"],
      [kind |-> "Other", id |-> "5", operation_type |-> "create_account"]>>

OperationLists == SeqsUpTo(TxOperations, MaxOps) \cup {ScenarioCOperations}

\* Every memo variant, absent and present.
AllOptMemos ==
    OptMemos \cup {Some(Memo_Text("")), Some(Memo_Id(0)), Some(Memo_Id(12345)),
                   Some(Memo_Hash(SAMPLE_HASH)), Some(Memo_Hash("abcd1234")),
                   Some(Memo_Return(SAMPLE_HASH)), Some(Memo_Return("efgh5678"))}

\* Operation lists with no payment, one payment and two payments.
MemoOperationLists ==
    {<<>>, ScenarioCOperations} \cup {<<o>> : o \in TxOperations}

\* Transactions over every memo variant.
MemoTransactions ==
    {Transaction_new("abc123", TRUE, fee, ops, memo) :
        fee \in {100, 1000}, ops \in MemoOperationLists, memo \in AllOptMemos}

Transactions ==
    {Transaction_new("abc123", succ, fee, ops, memo) :
        succ \in BOOL, fee \in {100, 1000}, ops \in OperationLists, memo \in OptMemos}
    \cup MemoTransactions

TxFeeStats == {None, Some(default_network_fees), Some(StatsWithBase(U64_MAX))}

ManageOfferOps ==
    {[kind |-> "ManageOffer", id |-> "1", seller |-> "GAAAA",
      selling_asset |-> "XLM (native)", buying_asset |-> "USDC (GISSUER)",
      amount |-> a, price |-> p, offer_id |-> o, offer_type |-> t] :
        a \in {"0", "100", "0.0000000", "00", ""}, p \in {"0.10", "0", ""},
        o \in {0, 1, 42, U64_MAX}, t \in {"Sell", "Buy"}}

ChangeTrustOps ==
    {[kind |-> "ChangeTrust", id |-> "1", trustor |-> tr, asset_code |-> c,
      asset_issuer |-> i, limit |-> l] :
        tr \in {"GAAAA", "Unknown"}, c \in {"USDC", ""}, i \in {"GISSUER", ""},
        l \in {"0", "1000", "0.0000000", "00", " 0", "", "922337203685.4775807"}}

PathAssets == {"XLM (native)", "USDC (GISSUER)", "Unknown"}

PathPaymentOps ==
    {[kind |-> "PathPayment", id |-> "1", source_account |-> sa, destination |-> "GBBB",
      send_asset |-> s, send_amount |-> "50", dest_asset |-> d, dest_amount |-> da,
      path |-> pth, payment_type |-> t] :
        sa \in {None, Some("GAAAA")}, s \in PathAssets, d \in PathAssets,
        da \in {"45", "50"}, pth \in SeqsUpTo({"EURT (GISSUER)"}, MaxPath),
        t \in {"StrictSend", "StrictReceive"}}

SetOptionsOps ==
    {[kind |-> "SetOptions", id |-> "op1", source_account |-> sa,
      inflation_dest |-> inf, clear_flags |-> cf, set_flags |-> sf,
      master_weight |-> mw, low_threshold |-> lo, med_threshold |-> me,
      high_threshold |-> hi, home_domain |-> hd, signer_key |-> sk,
      signer_weight |-> sw] :
        sa \in {None, Some("GAAAA")}, inf \in {None, Some(DEST_UNKNOWN)},
        cf \in {None, Some(0), Some(2)}, sf \in {None, Some(0), Some(3), Some(16)},
        mw \in {None, Some(0), Some(10)}, lo \in {None, Some(1)}, me \in {None, Some(2)},
        hi \in {None, Some(3)}, hd \in {None, Some(""), Some("example.com")},
        sk \in {None, Some(SIGNER_LONG), Some(SIGNER_SHORT)},
        sw \in {None, Some(0), Some(1)}}

\* Change descriptions; one of them holds a comma of its own.
ChangeTexts ==
    {"set low threshold to 1", "cleared the home domain",
     "enabled account flag(s): AUTH_REQUIRED, AUTH_REVOCABLE"}

ChangeLists == SeqsUpTo(ChangeTexts, MaxChanges)

Calls ==
    {[fn |-> "is_high_fee", stats |-> st, fee |-> f] : st \in FeeStatsValues, f \in FeeValues}
    \cup {[fn |-> "explain_fee", fee_charged |-> f, fee_stats |-> st] :
              f \in FeeValues, st \in OptFeeStats}
    \cup {[fn |-> "build_transaction_summary", successful |-> b, payment_count |-> n,
           skipped |-> m] : b \in BOOL, n \in 0..MaxCount, m \in 0..MaxCount}
    \cup {[fn |-> "explain_payment", op |-> o] : o \in PaymentOps}
    \cup {[fn |-> "format_asset", asset_type |-> ty, asset_code |-> c, asset_issuer |-> i] :
              ty \in OptAssetTypes, c \in OptAssetCodes, i \in OptAssetIssuers}
    \cup {[fn |-> "Operation_from", op |-> o] : o \in WireOps}
    \cup {[fn |-> "explain_transaction", transaction |-> tx, fee_stats |-> st] :
              tx \in Transactions, st \in TxFeeStats}

\* The calls of the explainers of the single operations.
OperationCalls ==
    {[fn |-> "explain_manage_offer", op |-> o] : o \in ManageOfferOps}
    \cup {[fn |-> "explain_change_trust", op |-> o] : o \in ChangeTrustOps}
    \cup {[fn |-> "explain_path_payment", op |-> o] : o \in PathPaymentOps}
    \cup {[fn |-> "explain_set_options", op |-> o] : o \in SetOptionsOps}
    \cup {[fn |-> "join_changes", changes |-> c] : c \in ChangeLists}

NoRet == [kind |-> "none"]
Returned(x) == [kind |-> "value", value |-> x]
Panicked == [kind |-> "panic"]

(***************************************************************************)
(* services/transaction_cache.rs: TransactionCache<T>                      *)
(*                                                                         *)
(* Instants and Durations are whole ticks of the clock `now`.  Each thread *)
(* takes one step per critical section: insert, insert_with_ttl and remove *)
(* have one (under the write lock), get has two (the read lock, then, if   *)
(* the fast path did not return, the write lock).  A thread remembers the  *)
(* method and key of its latest call and what the call returned.           *)
(***************************************************************************)
CacheKey_new_mutant_ignores_network(tx_hash, network) ==
    [tx_hash |-> tx_hash, network |-> "Public"]

\* CacheKey::new; equality and hashing are derived from both fields.
CacheKey_new(tx_hash, network) == [tx_hash |-> tx_hash, network |-> network]

\* CacheEntry::new, `instant` being what Instant::now() returns.
CacheEntry_new(value, ttl, instant) ==
    [value |-> value, created_at |-> instant, ttl |-> ttl]

is_expired_mutant_at_ttl(entry, instant) ==
    instant - entry.created_at >= entry.ttl

\* CacheEntry::is_expired: self.created_at.elapsed() > self.ttl
is_expired(entry, instant) ==
    instant - entry.created_at > entry.ttl

\* TransactionCache::new(default_ttl): the TTL given at construction.
default_ttl == 1

\* The keys of test_cache_key_uniqueness: two networks for one hash, two
\* hashes on one network.
CacheKeys == {CacheKey_new("hash1", "Public"), CacheKey_new("hash1", "Testnet"),
              CacheKey_new("hash2", "Public")}
\* The keys several threads work on at once.
SharedKeys == {CacheKey_new("hash1", "Public"), CacheKey_new("hash1", "Testnet")}
CacheValues == {"first", "second"}
CustomTtls == {0}
Threads == {"t1", "t2"}

\* contains_key: cache.get(key).map(|entry| !entry.is_expired()).unwrap_or(false)
contains_key(map, key, instant) ==
    IF map[key].some THEN ~is_expired(map[key].v, instant) ELSE FALSE

\* len: the number of entries of the map, expired ones included.
len(map) == Cardinality({k \in DOMAIN map : map[k].some})

ThreadIdle == [pc |-> "idle", op |-> [name |-> "none"], ret |-> NoRet]

\* TransactionCache::new: an empty map; no thread is inside a call.
CacheIdle ==
    /\ cache = [k \in CacheKeys |-> None]
    /\ now = 0
    /\ threads = [t \in Threads |-> ThreadIdle]
    /\ last_insert = [k \in CacheKeys |-> None]

(***************************************************************************)
(* The handler is idle while the engine is studied, and conversely.        *)
(***************************************************************************)
HandlerIdle ==
    /\ h_pc = "idle"
    /\ path_hash = <<>>
    /\ hash_valid = FALSE
    /\ tx_res = [state |-> "none"]
    /\ ops_res = [state |-> "none"]
    /\ fee_res = [state |-> "none"]
    /\ explainer_calls = <<>>
    /\ resolved_order = <<>>
    /\ response = [kind |-> "none"]

EngineIdle ==
    /\ call = [fn |-> "none"]
    /\ ret = NoRet
    /\ pc = "idle"
    /\ overflow_checks = FALSE

(***************************************************************************)
(* The engine: one call of one function                                    *)
(***************************************************************************)
Init ==
    /\ call \in Calls
    /\ ret = NoRet
    /\ pc = "ready"
    /\ overflow_checks \in BOOL
    /\ HandlerIdle
    /\ CacheIdle

Return(outcome) ==
    /\ ret' = outcome
    /\ pc' = "returned"
    /\ UNCHANGED <<call, overflow_checks>>
    /\ UNCHANGED handler_vars
    /\ UNCHANGED cache_vars

Call_is_high_fee ==
    /\ pc = "ready" /\ call.fn = "is_high_fee"
    /\ Return(IF is_high_fee_panics(call.stats, overflow_checks) THEN Panicked
              ELSE Returned(is_high_fee(call.stats, call.fee)))

Call_explain_fee ==
    /\ pc = "ready" /\ call.fn = "explain_fee"
    /\ Return(IF explain_fee_panics(call.fee_charged, call.fee_stats, overflow_checks)
              THEN Panicked
              ELSE Returned(explain_fee(call.fee_charged, call.fee_stats)))

Call_build_transaction_summary ==
    /\ pc = "ready" /\ call.fn = "build_transaction_summary"
    /\ Return(Returned(build_transaction_summary(call.successful, call.payment_count,
                                                 call.skipped)))

Call_explain_payment ==
    /\ pc = "ready" /\ call.fn = "explain_payment"
    /\ Return(Returned(explain_payment(call.op)))

Call_format_asset ==
    /\ pc = "ready" /\ call.fn = "format_asset"
    /\ Return(Returned(format_asset(call.asset_type, call.asset_code, call.asset_issuer)))

Call_Operation_from ==
    /\ pc = "ready" /\ call.fn = "Operation_from"
    /\ Return(Returned(Operation_from(call.op)))

Call_explain_transaction ==
    /\ pc = "ready" /\ call.fn = "explain_transaction"
    /\ Return(IF explain_transaction_panics(call.transaction, call.fee_stats, overflow_checks)
              THEN Panicked
              ELSE Returned(explain_transaction(call.transaction, call.fee_stats)))

Call_explain_manage_offer ==
    /\ pc = "ready" /\ call.fn = "explain_manage_offer"
    /\ Return(Returned(explain_manage_offer(call.op)))

Call_explain_change_trust ==
    /\ pc = "ready" /\ call.fn = "explain_change_trust"
    /\ Return(Returned(explain_change_trust(call.op)))

Call_explain_path_payment ==
    /\ pc = "ready" /\ call.fn = "explain_path_payment"
    /\ Return(Returned(explain_path_payment(call.op)))

Call_explain_set_options ==
    /\ pc = "ready" /\ call.fn = "explain_set_options"
    /\ Return(Returned(explain_set_options(call.op)))

Call_join_changes ==
    /\ pc = "ready" /\ call.fn = "join_changes"
    /\ Return(Returned(join_changes(call.changes)))

(***************************************************************************)
(* services/horizon.rs: fetch_fee_stats, from the body to the FeeStats     *)
(***************************************************************************)
\* str::parse::<u64>() on the strings of the model: an optional "+" and
\* decimal digits, within the range of u64.
str_parse_u64(str) ==
    CASE str = "0" -> Some(0)
      [] str = "100" -> Some(100)
      [] str = "+100" -> Some(100)
      [] str = "1000" -> Some(1000)
      [] str = "100000" -> Some(100000)
      [] OTHER -> None

\* The body of /fee_stats, deserialized: five decimal strings.
HorizonFeeStats(base, min, max_, mode, p90) ==
    [last_ledger_base_fee |-> base,
     fee_charged |-> [min |-> min, max |-> max_, mode |-> mode, p90 |-> p90]]

\* fetch_fee_stats after `let raw: HorizonFeeStats = res.json().await.ok()?`:
\* base_fee is parsed with `.ok()?`, the four others with
\* `.unwrap_or(base_fee)`.
fee_stats_from_raw(raw) ==
    LET base == str_parse_u64(raw.last_ledger_base_fee) IN
    IF ~base.some THEN None
    ELSE LET base_fee == base.v
             min_fee == unwrap_or(str_parse_u64(raw.fee_charged.min), base_fee)
             max_fee == unwrap_or(str_parse_u64(raw.fee_charged.max), base_fee)
             mode_fee == unwrap_or(str_parse_u64(raw.fee_charged.mode), base_fee)
             p90_fee == unwrap_or(str_parse_u64(raw.fee_charged.p90), base_fee)
         IN Some(FeeStats_new(base_fee, min_fee, max_fee, mode_fee, p90_fee))

\* Decimal strings and strings that are no u64: letters, the empty string, a
\* negative number, 2^64.
BaseFeeStrings == {"100", "+100", "1000", "abc", "", "-1", "18446744073709551616"}
FeeStrings == {"100", "100000", "abc", ""}

RawFeeStats ==
    {HorizonFeeStats(b, mi, ma, mo, p) :
        b \in BaseFeeStrings, mi \in FeeStrings, ma \in FeeStrings,
        mo \in FeeStrings, p \in FeeStrings}

\* The bodies the handler meets: the default network fees, a body whose max
\* does not parse and a body whose base fee does not parse.
WireFeeStats ==
    {HorizonFeeStats("100", "100", "100000", "100", "1000"),
     HorizonFeeStats("100", "100", "", "100", "1000"),
     HorizonFeeStats("abc", "100", "100000", "100", "1000")}

(***************************************************************************)
(* The constructors and conversions of the models: one call of one of them *)
(***************************************************************************)
\* Scalar values whose UTF-8 encodings take one, two, three and four bytes:
\* "1", e with acute accent, the euro sign, an emoji.
SampleChars == {49, 233, 8364, 128512}

\* Texts of up to MaxTextChars equal characters, and texts of ASCII characters
\* that end in one character of another width.
MemoTexts ==
    {[i \in 1..n |-> c] : n \in 0..MaxTextChars, c \in SampleChars}
    \cup {[i \in 1..n |-> 49] \o <<c>> : n \in 0..(MaxTextChars - 1), c \in SampleChars}

\* Width of the stroops argument: u64.
STROOPS_BITS == 64

Zeros(n) == [i \in 1..n |-> 0]
Ones(n) == [i \in 1..n |-> 1]

\* Stroops values over the whole width: 2^e - 1, 2^e and 2^e + 1, the fees of
\* the model, whole numbers of XLM and their multiples by powers of two.
StroopsValues ==
    {Ones(e) : e \in 0..STROOPS_BITS}
    \cup {<<1>> \o Zeros(e) : e \in 0..(STROOPS_BITS - 1)}
    \cup {<<1>> \o Zeros(e - 1) \o <<1>> : e \in 1..(STROOPS_BITS - 1)}
    \cup {to_bits(n) : n \in FeeValues \cup {0, 100, 10000000, 12345678, 2147483647}}
    \cup {to_bits(v) \o Zeros(j) : v \in {10000000, 12345678}, j \in 0..40}

ValueCalls ==
    {[fn |-> "Memo_text", text |-> t] : t \in MemoTexts}
    \cup {[fn |-> "stroops_to_xlm", stroops |-> b] : b \in StroopsValues}
    \cup {[fn |-> "fee_stats_from_raw", raw |-> r] : r \in RawFeeStats}

InitValues ==
    /\ call \in ValueCalls
    /\ ret = NoRet
    /\ pc = "ready"
    /\ overflow_checks = FALSE
    /\ HandlerIdle
    /\ CacheIdle

Call_Memo_text ==
    /\ pc = "ready" /\ call.fn = "Memo_text"
    /\ Return(Returned(Memo_text(call.text)))

Call_stroops_to_xlm ==
    /\ pc = "ready" /\ call.fn = "stroops_to_xlm"
    /\ Return(Returned(stroops_to_xlm_bits(call.stroops)))

Call_fee_stats_from_raw ==
    /\ pc = "ready" /\ call.fn = "fee_stats_from_raw"
    /\ Return(Returned(fee_stats_from_raw(call.raw)))

NextValues ==
    \/ Call_Memo_text
    \/ Call_stroops_to_xlm
    \/ Call_fee_stats_from_raw

SpecValues == InitValues /\ [][NextValues]_vars

(***************************************************************************)
(* The explainers of the single operations: one call of one of them        *)
(***************************************************************************)
InitOperations ==
    /\ call \in OperationCalls
    /\ ret = NoRet
    /\ pc = "ready"
    /\ overflow_checks = FALSE
    /\ HandlerIdle
    /\ CacheIdle

NextOperations ==
    \/ Call_explain_manage_offer
    \/ Call_explain_change_trust
    \/ Call_explain_path_payment
    \/ Call_explain_set_options
    \/ Call_join_changes

SpecOperations == InitOperations /\ [][NextOperations]_vars

Next ==
    \/ Call_is_high_fee
    \/ Call_explain_fee
    \/ Call_build_transaction_summary
    \/ Call_explain_payment
    \/ Call_format_asset
    \/ Call_Operation_from
    \/ Call_explain_transaction

Spec == Init /\ [][Next]_vars

(***************************************************************************)
(* errors.rs                                                               *)
(***************************************************************************)
\* impl From<HorizonError> for AppError
AppError_from_HorizonError(err) ==
    CASE err = "TransactionNotFound" ->
           [variant |-> "NotFound", msg |-> "Transaction not found on the Stellar network."]
      [] err = "AccountNotFound" ->
           [variant |-> "NotFound", msg |-> "Account not found on the Stellar network."]
      [] err = "NetworkError" ->
           [variant |-> "UpstreamFailure",
            msg |-> "Unable to reach Stellar network. Please try again later."]
      [] err = "InvalidResponse" ->
           [variant |-> "UpstreamFailure",
            msg |-> "Received an invalid response from the Stellar network."]

\* impl From<ExplainError> for AppError
AppError_from_ExplainError(err) ==
    CASE err = "EmptyTransaction" ->
           [variant |-> "BadRequest", msg |-> "This transaction contains no operations."]

AppError_status_code(e) ==
    CASE e.variant = "NotFound" -> 404
      [] e.variant = "BadRequest" -> 400
      [] e.variant = "UpstreamFailure" -> 502
      [] e.variant = "Internal" -> 500

(***************************************************************************)
(* The explainer as the handler calls it.  map_transaction_to_domain and   *)
(* explain_transaction_with_ledger are called by routes/tx.rs; they follow *)
(* sections 4.1, 4.3 and 6 of the specification.                           *)
(***************************************************************************)
SAMPLE_CREATED_AT == "2024-01-15T14:32:00Z"

\* The decimal strings of the sample records, as unsigned integers.
parse_u64(str) ==
    CASE str = "100" -> Some(100)
      [] str = "1000" -> Some(1000)
      [] OTHER -> None

\* "YYYY-MM-DDTHH:MM:SS[Z]" -> "YYYY-MM-DD at HH:MM UTC"; anything else unchanged.
format_ledger_time(created_at) ==
    IF created_at = SAMPLE_CREATED_AT THEN "2024-01-15 at 14:32 UTC" ELSE created_at

map_transaction_to_domain(tx, ops) ==
    Transaction_new(tx.hash, tx.successful, unwrap_or(parse_u64(tx.fee_charged), 0),
                    [i \in 1..Len(ops) |-> Operation_from(ops[i])],
                    None)

explain_transaction_with_ledger(transaction, fee_stats, created_at, ledger) ==
    LET base == explain_transaction(transaction, fee_stats) IN
    IF ~base.ok THEN base
    ELSE LET suffix ==
                 IF created_at.some /\ ledger.some
                 THEN " This transaction was confirmed on " \o format_ledger_time(created_at.v)
                          \o " (ledger #" \o ToString(ledger.v) \o ")."
                 ELSE IF created_at.some
                 THEN " This transaction was confirmed on " \o format_ledger_time(created_at.v)
                          \o "."
                 ELSE IF ledger.some
                 THEN " Included in ledger #" \o ToString(ledger.v) \o "."
                 ELSE ""
         IN Ok([transaction_hash |-> base.value.transaction_hash,
                successful |-> base.value.successful,
                summary |-> base.value.summary \o suffix,
                payment_explanations |-> base.value.payment_explanations,
                skipped_operations |-> base.value.skipped_operations,
                memo_explanation |-> base.value.memo_explanation,
                fee_explanation |-> Some(base.value.fee_explanation),
                ledger_closed_at |-> created_at,
                ledger |-> ledger])

(***************************************************************************)
(* routes/tx.rs: get_tx_explanation, services/horizon.rs: the fetches      *)
(***************************************************************************)
HorizonTransaction(created_at, ledger) ==
    [hash |-> "abc123", successful |-> TRUE, fee_charged |-> "100",
     memo_type |-> None, memo |-> None, created_at |-> created_at, ledger |-> ledger]

WireTransactions ==
    {HorizonTransaction(Some(SAMPLE_CREATED_AT), Some(7)), HorizonTransaction(None, None)}

WireOperationLists ==
    {<<>>,
     <<HorizonOperationFull("1", "payment")>>,
     <<HorizonOperationFull("1", "payment"), HorizonOperation("2", "bump_sequence")>>}

Pending == [state |-> "pending"]
\* The upstream answered 200 and the body is being read.
Body == [state |-> "body"]
Resolved(x) == [state |-> "resolved", v |-> x]

IsResolved(r) == r.state = "resolved"

\* The part of get_tx_explanation after tokio::join!: what it returns and the
\* calls it makes to the explainer.
after_join_mutant_ignores_ops_error(tx_r, ops_r, fee_stats) ==
    IF ~tx_r.ok
    THEN [response |-> Err(AppError_from_HorizonError(tx_r.err)), explainer_calls |-> <<>>]
    ELSE LET tx == tx_r.value
             ops == IF ops_r.ok THEN ops_r.value ELSE <<>>
             domain_tx == map_transaction_to_domain(tx, ops)
             explanation == explain_transaction_with_ledger(domain_tx, fee_stats,
                                                            tx.created_at, tx.ledger)
             calls == <<[transaction |-> domain_tx, fee_stats |-> fee_stats,
                         created_at |-> tx.created_at, ledger |-> tx.ledger]>>
         IN IF explanation.ok
            THEN [response |-> Ok(explanation.value), explainer_calls |-> calls]
            ELSE [response |-> Err(AppError_from_ExplainError(explanation.err)),
                  explainer_calls |-> calls]

after_join(tx_r, ops_r, fee_stats) ==
    IF ~tx_r.ok
    THEN [response |-> Err(AppError_from_HorizonError(tx_r.err)), explainer_calls |-> <<>>]
    ELSE IF ~ops_r.ok
    THEN [response |-> Err(AppError_from_HorizonError(ops_r.err)), explainer_calls |-> <<>>]
    ELSE LET tx == tx_r.value
             ops == ops_r.value
             created_at == tx.created_at
             ledger == tx.ledger
             domain_tx == map_transaction_to_domain(tx, ops)
             explanation == explain_transaction_with_ledger(domain_tx, fee_stats,
                                                            created_at, ledger)
             calls == <<[transaction |-> domain_tx, fee_stats |-> fee_stats,
                         created_at |-> created_at, ledger |-> ledger]>>
         IN IF explanation.ok
            THEN [response |-> Ok(explanation.value), explainer_calls |-> calls]
            ELSE [response |-> Err(AppError_from_ExplainError(explanation.err)),
                  explainer_calls |-> calls]

\* Length of a transaction hash, in hexadecimal characters.
HASH_LENGTH == 64

\* char::is_ascii_hexdigit: '0'..='9' | 'A'..='F' | 'a'..='f'
is_ascii_hexdigit(c) ==
    (48 <= c /\ c <= 57) \/ (65 <= c /\ c <= 70) \/ (97 <= c /\ c <= 102)

is_valid_transaction_hash_mutant_length_only(hash) ==
    as_bytes_len(hash) = HASH_LENGTH

\* is_valid_transaction_hash: hash.len() is the length in bytes.
is_valid_transaction_hash(hash) ==
    /\ as_bytes_len(hash) = HASH_LENGTH
    /\ \A i \in 1..Len(hash) : is_ascii_hexdigit(hash[i])

\* Characters of a path: the hexadecimal digits at the ends of their ranges,
\* the characters next to those ranges ('/', ':', '@', 'G', '`', 'g'), a
\* hyphen, and characters of two and three bytes (e acute, fullwidth zero).
HashChars == {48, 57, 65, 70, 97, 102, 47, 58, 64, 71, 96, 103, 45, 233, 65296}
HashLengths == {0, 1, 32, 63, 64, 65}
Fill(c, n) == [i \in 1..n |-> c]

\* Hashes of one repeated character, hashes of 'a' ending in another
\* character, and hashes that are 64 bytes long in fewer than 64 characters.
Hashes ==
    {Fill(c, n) : c \in HashChars, n \in HashLengths}
    \cup {Fill(97, n - 1) \o <<c>> : c \in HashChars, n \in {63, 64, 65}}
    \cup {Fill(97, 62) \o <<233>>, Fill(97, 61) \o <<65296>>, Fill(233, 32)}

InitHandler ==
    /\ EngineIdle
    /\ CacheIdle
    /\ h_pc = "start"
    /\ path_hash \in Hashes
    /\ hash_valid = is_valid_transaction_hash(path_hash)
    /\ tx_res = [state |-> "none"]
    /\ ops_res = [state |-> "none"]
    /\ fee_res = [state |-> "none"]
    /\ explainer_calls = <<>>
    /\ resolved_order = <<>>
    /\ response = [kind |-> "none"]

\* Entry of the handler up to tokio::join!: the hash check, then the three
\* futures are created and polled together.
Start ==
    /\ h_pc = "start"
    /\ IF ~hash_valid
       THEN /\ response' = [kind |-> "returned",
                            result |-> Err([variant |-> "BadRequest",
                                msg |-> "Invalid transaction hash format. Expected 64-character hexadecimal hash."])]
            /\ h_pc' = "done"
            /\ UNCHANGED <<tx_res, ops_res, fee_res>>
       ELSE /\ tx_res' = Pending
            /\ ops_res' = Pending
            /\ fee_res' = Pending
            /\ h_pc' = "join"
            /\ UNCHANGED response
    /\ UNCHANGED <<path_hash, hash_valid, explainer_calls, resolved_order>>
    /\ UNCHANGED engine_vars
    /\ UNCHANGED cache_vars

\* fetch_transaction: send().await completes.
TxSendCompletes ==
    /\ h_pc = "join" /\ tx_res = Pending
    /\ \E outcome \in {"error", "200", "404", "500"} :
          tx_res' = CASE outcome = "error" -> Resolved(Err("NetworkError"))
                      [] outcome = "200" -> Body
                      [] outcome = "404" -> Resolved(Err("TransactionNotFound"))
                      [] OTHER -> Resolved(Err("InvalidResponse"))
    /\ resolved_order' = IF IsResolved(tx_res') THEN Append(resolved_order, "tx")
                         ELSE resolved_order
    /\ UNCHANGED <<h_pc, path_hash, hash_valid, ops_res, fee_res, explainer_calls, response>>
    /\ UNCHANGED engine_vars
    /\ UNCHANGED cache_vars

\* fetch_transaction: json().await completes.
TxBodyCompletes ==
    /\ h_pc = "join" /\ tx_res = Body
    /\ \/ \E tx \in WireTransactions : tx_res' = Resolved(Ok(tx))
       \/ tx_res' = Resolved(Err("InvalidResponse"))
    /\ resolved_order' = IF IsResolved(tx_res') THEN Append(resolved_order, "tx")
                         ELSE resolved_order
    /\ UNCHANGED <<h_pc, path_hash, hash_valid, ops_res, fee_res, explainer_calls, response>>
    /\ UNCHANGED engine_vars
    /\ UNCHANGED cache_vars

\* fetch_operations: send().await completes.
OpsSendCompletes ==
    /\ h_pc = "join" /\ ops_res = Pending
    /\ \E outcome \in {"error", "200", "404", "500"} :
          ops_res' = CASE outcome = "error" -> Resolved(Err("NetworkError"))
                       [] outcome = "200" -> Body
                       [] outcome = "404" -> Resolved(Err("TransactionNotFound"))
                       [] OTHER -> Resolved(Err("InvalidResponse"))
    /\ resolved_order' = IF IsResolved(ops_res') THEN Append(resolved_order, "ops")
                         ELSE resolved_order
    /\ UNCHANGED <<h_pc, path_hash, hash_valid, tx_res, fee_res, explainer_calls, response>>
    /\ UNCHANGED engine_vars
    /\ UNCHANGED cache_vars

\* fetch_operations: json().await completes.
OpsBodyCompletes ==
    /\ h_pc = "join" /\ ops_res = Body
    /\ \/ \E ops \in WireOperationLists : ops_res' = Resolved(Ok(ops))
       \/ ops_res' = Resolved(Err("InvalidResponse"))
    /\ resolved_order' = IF IsResolved(ops_res') THEN Append(resolved_order, "ops")
                         ELSE resolved_order
    /\ UNCHANGED <<h_pc, path_hash, hash_valid, tx_res, fee_res, explainer_calls, response>>
    /\ UNCHANGED engine_vars
    /\ UNCHANGED cache_vars

\* fetch_fee_stats: send().await completes; an error or a status other than
\* 200 gives None.
FeeSendCompletes ==
    /\ h_pc = "join" /\ fee_res = Pending
    /\ \E outcome \in {"error", "200", "503"} :
          fee_res' = IF outcome = "200" THEN Body ELSE Resolved(None)
    /\ resolved_order' = IF IsResolved(fee_res') THEN Append(resolved_order, "fee")
                         ELSE resolved_order
    /\ UNCHANGED <<h_pc, path_hash, hash_valid, tx_res, ops_res, explainer_calls, response>>
    /\ UNCHANGED engine_vars
    /\ UNCHANGED cache_vars

\* fetch_fee_stats: json().await completes; a body that does not deserialize
\* gives None, any other body is converted.
FeeBodyCompletes ==
    /\ h_pc = "join" /\ fee_res = Body
    /\ \/ \E raw \in WireFeeStats : fee_res' = Resolved(fee_stats_from_raw(raw))
       \/ fee_res' = Resolved(None)
    /\ resolved_order' = IF IsResolved(fee_res') THEN Append(resolved_order, "fee")
                         ELSE resolved_order
    /\ UNCHANGED <<h_pc, path_hash, hash_valid, tx_res, ops_res, explainer_calls, response>>
    /\ UNCHANGED engine_vars
    /\ UNCHANGED cache_vars

\* tokio::join! returns once the three futures have completed; the handler
\* runs to its return.
Resume ==
    /\ h_pc = "join"
    /\ IsResolved(tx_res) /\ IsResolved(ops_res) /\ IsResolved(fee_res)
    /\ LET out == after_join(tx_res.v, ops_res.v, fee_res.v) IN
         /\ response' = [kind |-> "returned", result |-> out.response]
         /\ explainer_calls' = explainer_calls \o out.explainer_calls
    /\ h_pc' = "done"
    /\ UNCHANGED <<path_hash, hash_valid, tx_res, ops_res, fee_res, resolved_order>>
    /\ UNCHANGED engine_vars
    /\ UNCHANGED cache_vars

NextHandler ==
    \/ Start
    \/ TxSendCompletes
    \/ TxBodyCompletes
    \/ OpsSendCompletes
    \/ OpsBodyCompletes
    \/ FeeSendCompletes
    \/ FeeBodyCompletes
    \/ Resume

SpecHandler == InitHandler /\ [][NextHandler]_vars

(***************************************************************************)
(* The two fee messages: one call of explain_fee or explain_payment_with_fee *)
(***************************************************************************)
FeePaymentOps ==
    {PaymentOperation("test_id", src, DEST_UNKNOWN, "native", None, None, "500.0000000") :
        src \in {None, Some(COINBASE)}}

FeeCalls ==
    {[fn |-> "explain_fee", fee_charged |-> f, fee_stats |-> Some(st)] :
        f \in FeeValues, st \in FeeStatsValues}
    \cup {[fn |-> "explain_payment_with_fee", op |-> o, fee_charged |-> f,
           network_fees |-> st] :
              o \in FeePaymentOps, f \in FeeValues, st \in FeeStatsValues}

InitFees ==
    /\ call \in FeeCalls
    /\ ret = NoRet
    /\ pc = "ready"
    /\ overflow_checks \in BOOL
    /\ HandlerIdle
    /\ CacheIdle

Call_explain_payment_with_fee ==
    /\ pc = "ready" /\ call.fn = "explain_payment_with_fee"
    /\ Return(IF is_high_fee_panics(call.network_fees, overflow_checks)
              THEN Panicked
              ELSE Returned(explain_payment_with_fee(call.op, call.fee_charged,
                                                     call.network_fees)))

NextFees ==
    \/ Call_explain_fee
    \/ Call_explain_payment_with_fee

SpecFees == InitFees /\ [][NextFees]_vars

(***************************************************************************)
(* The transaction cache shared by threads                                  *)
(***************************************************************************)
InitCache ==
    /\ EngineIdle
    /\ HandlerIdle
    /\ CacheIdle

CacheCall(name, key) == [name |-> name, key |-> key]

ThreadReturns(t, name, key, value) ==
    threads' = [threads EXCEPT ![t] = [pc |-> "idle", op |-> CacheCall(name, key),
                                       ret |-> Returned(value)]]

InsertEntry_mutant_loses_update(t, name, key, value, ttl) ==
    /\ cache' = [cache EXCEPT ![key] =
                    IF cache[key].some THEN None
                    ELSE Some(CacheEntry_new(value, ttl, now))]
    /\ last_insert' = [last_insert EXCEPT ![key] = Some(value)]
    /\ ThreadReturns(t, name, key, ~cache[key].some)
    /\ UNCHANGED now
    /\ UNCHANGED <<engine_vars, handler_vars>>

InsertEntry_mutant_keeps_start_time(t, name, key, value, ttl) ==
    /\ cache' = [cache EXCEPT ![key] =
                    Some(CacheEntry_new(value, ttl,
                                        IF cache[key].some THEN cache[key].v.created_at ELSE now))]
    /\ last_insert' = [last_insert EXCEPT ![key] = Some(value)]
    /\ ThreadReturns(t, name, key, ~cache[key].some)
    /\ UNCHANGED now
    /\ UNCHANGED <<engine_vars, handler_vars>>

\* insert and insert_with_ttl: cache.insert(key, entry).is_none()
InsertEntry(t, name, key, value, ttl) ==
    /\ cache' = [cache EXCEPT ![key] = Some(CacheEntry_new(value, ttl, now))]
    /\ last_insert' = [last_insert EXCEPT ![key] = Some(value)]
    /\ ThreadReturns(t, name, key, ~cache[key].some)
    /\ UNCHANGED now
    /\ UNCHANGED <<engine_vars, handler_vars>>

TransactionCache_insert(t, key, value) ==
    /\ threads[t].pc = "idle"
    /\ InsertEntry(t, "insert", key, value, default_ttl)

TransactionCache_insert_with_ttl(t, key, value, ttl) ==
    /\ threads[t].pc = "idle"
    /\ InsertEntry(t, "insert_with_ttl", key, value, ttl)

\* get, under the read lock: the fast path returns a live entry's value;
\* otherwise the read lock is dropped and the thread waits for the write lock.
TransactionCache_get_read(t, key) ==
    /\ threads[t].pc = "idle"
    /\ LET entry == cache[key] IN
         IF entry.some /\ ~is_expired(entry.v, now)
         THEN ThreadReturns(t, "get", key, Some(entry.v.value))
         ELSE threads' = [threads EXCEPT ![t] = [pc |-> "get_write",
                                                 op |-> CacheCall("get", key),
                                                 ret |-> NoRet]]
    /\ UNCHANGED <<cache, now, last_insert>>
    /\ UNCHANGED <<engine_vars, handler_vars>>

\* A write-lock section that trusts what the read-lock section saw.
TransactionCache_get_write_mutant_removes_unchecked(t) ==
    /\ threads[t].pc = "get_write"
    /\ cache' = [cache EXCEPT ![threads[t].op.key] = None]
    /\ ThreadReturns(t, "get", threads[t].op.key, None)
    /\ UNCHANGED <<now, last_insert>>
    /\ UNCHANGED <<engine_vars, handler_vars>>

\* get, under the write lock: the entry is looked up again and removed if it
\* has expired.
TransactionCache_get_write(t) ==
    /\ threads[t].pc = "get_write"
    /\ LET key == threads[t].op.key
           entry == cache[key]
       IN IF entry.some
          THEN IF is_expired(entry.v, now)
               THEN /\ cache' = [cache EXCEPT ![key] = None]
                    /\ ThreadReturns(t, "get", key, None)
               ELSE /\ ThreadReturns(t, "get", key, Some(entry.v.value))
                    /\ UNCHANGED cache
          ELSE /\ ThreadReturns(t, "get", key, None)
               /\ UNCHANGED cache
    /\ UNCHANGED <<now, last_insert>>
    /\ UNCHANGED <<engine_vars, handler_vars>>

\* remove: cache.remove(key).map(|entry| entry.value)
TransactionCache_remove(t, key) ==
    /\ threads[t].pc = "idle"
    /\ LET entry == cache[key] IN
         /\ cache' = [cache EXCEPT ![key] = None]
         /\ ThreadReturns(t, "remove", key,
                          IF entry.some THEN Some(entry.v.value) ELSE None)
    /\ UNCHANGED <<now, last_insert>>
    /\ UNCHANGED <<engine_vars, handler_vars>>

\* contains_key, under the read lock.
TransactionCache_contains_key(t, key) ==
    /\ threads[t].pc = "idle"
    /\ ThreadReturns(t, "contains_key", key, contains_key(cache, key, now))
    /\ UNCHANGED <<cache, now, last_insert>>
    /\ UNCHANGED <<engine_vars, handler_vars>>

\* Time passes.
Tick ==
    /\ now < MaxClock
    /\ now' = now + 1
    /\ UNCHANGED <<cache, threads, last_insert>>
    /\ UNCHANGED <<engine_vars, handler_vars>>

NextCache ==
    \/ \E t \in Threads, key \in SharedKeys, value \in CacheValues :
         TransactionCache_insert(t, key, value)
    \/ \E t \in Threads, key \in SharedKeys, value \in CacheValues, ttl \in CustomTtls :
         TransactionCache_insert_with_ttl(t, key, value, ttl)
    \/ \E t \in Threads, key \in SharedKeys : TransactionCache_get_read(t, key)
    \/ \E t \in Threads : TransactionCache_get_write(t)
    \/ \E t \in Threads, key \in SharedKeys : TransactionCache_remove(t, key)
    \/ Tick

SpecCache == InitCache /\ [][NextCache]_vars

(***************************************************************************)
(* Threads that only insert and get, while no time passes: nothing expires  *)
(***************************************************************************)
NextCacheWriters ==
    \/ \E t \in Threads, key \in CacheKeys, value \in CacheValues :
         TransactionCache_insert(t, key, value)
    \/ \E t \in Threads, key \in CacheKeys : TransactionCache_get_read(t, key)
    \/ \E t \in Threads : TransactionCache_get_write(t)

SpecCacheWriters == InitCache /\ [][NextCacheWriters]_vars

(***************************************************************************)
(* The transaction cache used by one thread, over all the keys              *)
(***************************************************************************)
Owner == "t1"

NextCacheKeys ==
    \/ \E key \in CacheKeys, value \in CacheValues :
         TransactionCache_insert(Owner, key, value)
    \/ \E key \in CacheKeys, value \in CacheValues, ttl \in CustomTtls :
         TransactionCache_insert_with_ttl(Owner, key, value, ttl)
    \/ \E key \in CacheKeys : TransactionCache_get_read(Owner, key)
    \/ TransactionCache_get_write(Owner)
    \/ \E key \in CacheKeys : TransactionCache_remove(Owner, key)
    \/ \E key \in CacheKeys : TransactionCache_contains_key(Owner, key)
    \/ Tick

SpecCacheKeys == InitCache /\ [][NextCacheKeys]_vars

(***************************************************************************)
(* services/cache.rs: the DashMap-based TransactionCache                    *)
(*                                                                         *)
(* The variables of the cache hold this cache here: `cache` maps a key     *)
(* (a String) to its CachedEntry, if any.  A step is what runs under one    *)
(* lock of the DashMap: get's lookup and expiry test hold the guard that    *)
(* self.cache.get(key) returned; after drop(entry), self.cache.remove(key)  *)
(* takes the lock again.                                                    *)
(***************************************************************************)
\* CachedEntry::new, `instant` being what Instant::now() returns.
CachedEntry_new(data, instant) == [data |-> data, inserted_at |-> instant]

\* CachedEntry::is_expired: self.inserted_at.elapsed() > ttl
CachedEntry_is_expired(entry, ttl, instant) == instant - entry.inserted_at > ttl

\* TransactionCache::new(ttl_seconds): the TTL of every entry.
cache_ttl == 1

DashKeys == {"hash1", "hash2"}

InitDashCache ==
    /\ EngineIdle
    /\ HandlerIdle
    /\ cache = [k \in DashKeys |-> None]
    /\ now = 0
    /\ threads = [t \in Threads |-> ThreadIdle]
    /\ last_insert = [k \in DashKeys |-> None]

\* get, while it holds the guard of the lookup.
DashCache_get_lookup(t, key) ==
    /\ threads[t].pc = "idle"
    /\ LET entry == cache[key] IN
         IF entry.some
         THEN IF ~CachedEntry_is_expired(entry.v, cache_ttl, now)
              THEN ThreadReturns(t, "get", key, Some(entry.v.data))
              ELSE threads' = [threads EXCEPT ![t] = [pc |-> "get_remove",
                                                      op |-> CacheCall("get", key),
                                                      ret |-> NoRet]]
         ELSE ThreadReturns(t, "get", key, None)
    /\ UNCHANGED <<cache, now, last_insert>>
    /\ UNCHANGED <<engine_vars, handler_vars>>

\* get, after drop(entry): self.cache.remove(key), then None.
DashCache_get_remove(t) ==
    /\ threads[t].pc = "get_remove"
    /\ cache' = [cache EXCEPT ![threads[t].op.key] = None]
    /\ ThreadReturns(t, "get", threads[t].op.key, None)
    /\ UNCHANGED <<now, last_insert>>
    /\ UNCHANGED <<engine_vars, handler_vars>>

\* insert: self.cache.insert(key, CachedEntry::new(value))
DashCache_insert(t, key, value) ==
    /\ threads[t].pc = "idle"
    /\ cache' = [cache EXCEPT ![key] = Some(CachedEntry_new(value, now))]
    /\ last_insert' = [last_insert EXCEPT ![key] = Some(value)]
    /\ ThreadReturns(t, "insert", key, "unit")
    /\ UNCHANGED now
    /\ UNCHANGED <<engine_vars, handler_vars>>

\* clear_expired: retain tests and removes each entry under its shard's lock.
DashCache_clear_expired(t) ==
    /\ threads[t].pc = "idle"
    /\ cache' = [k \in DashKeys |->
                   IF cache[k].some /\ CachedEntry_is_expired(cache[k].v, cache_ttl, now)
                   THEN None ELSE cache[k]]
    /\ threads' = [threads EXCEPT ![t] = [pc |-> "idle", op |-> [name |-> "clear_expired"],
                                          ret |-> Returned("unit")]]
    /\ UNCHANGED <<now, last_insert>>
    /\ UNCHANGED <<engine_vars, handler_vars>>

NextDashCache ==
    \/ \E t \in Threads, key \in DashKeys : DashCache_get_lookup(t, key)
    \/ \E t \in Threads : DashCache_get_remove(t)
    \/ \E t \in Threads, key \in DashKeys, value \in CacheValues :
         DashCache_insert(t, key, value)
    \/ \E t \in Threads : DashCache_clear_expired(t)
    \/ Tick

SpecDashCache == InitDashCache /\ [][NextDashCache]_vars

(***************************************************************************)
(* Properties                                                              *)
(***************************************************************************)
ReturnedFrom(fn) == pc = "returned" /\ call.fn = fn

\* Number of operations of kind Payment, counted one operation at a time.
RECURSIVE CountPayments(_)
CountPayments(ops) ==
    IF ops = <<>> THEN 0
    ELSE (IF Head(ops).kind = "Payment" THEN 1 ELSE 0) + CountPayments(Tail(ops))

ExplanationFields ==
    {"transaction_hash", "successful", "summary", "payment_explanations",
     "skipped_operations", "memo_explanation", "fee_explanation"}

\* C1: explain_transaction fails with EmptyTransaction if and only if the
\* transaction has no operations, whatever successful, fee_charged, memo and
\* fee stats are; every transaction with at least one operation returns a
\* complete Ok explanation.
C1_EmptyTransactionIsTheOnlyError ==
    ReturnedFrom("explain_transaction") =>
        IF Len(call.transaction.operations) = 0
        THEN ret = Returned(Err("EmptyTransaction"))
        ELSE /\ ret.kind = "value"
             /\ ret.value.ok
             /\ DOMAIN ret.value.value = ExplanationFields

\* C2: for every non-empty transaction, skipped_operations is the number of
\* operations minus the number of Payment operations, payment_explanations has
\* one entry per Payment operation, and the two add up to the number of
\* operations; every kind other than Payment is skipped.
C2_SkippedIsTotalMinusPayments ==
    (ReturnedFrom("explain_transaction") /\ ret.kind = "value" /\ ret.value.ok) =>
        LET ops == call.transaction.operations
            n == CountPayments(ops)
            e == ret.value.value
        IN /\ e.skipped_operations = Len(ops) - n
           /\ Len(e.payment_explanations) = n
           /\ Len(e.payment_explanations) + e.skipped_operations = Len(ops)

C2_Witness ==
    /\ ReturnedFrom("explain_transaction") /\ ret.kind = "value" /\ ret.value.ok
    /\ Len(call.transaction.operations) = 3
    /\ call.transaction.operations[1].kind = "ManageOffer"
    /\ call.transaction.operations[2].kind = "Payment"
    /\ call.transaction.operations[3].kind = "Other"
    /\ ret.value.value.skipped_operations = 2

StatusWord(successful) == IF successful THEN "successful" ELSE "failed"

\* C3 as stated: after the payments, ". {M} other operation(s) were skipped"
\* whenever skipped > 0, whichever way the noun is written.
C3_SkippedClauseAlwaysWere ==
    (ReturnedFrom("build_transaction_summary") /\ call.payment_count > 0
        /\ call.skipped > 0) =>
        LET payment_text == IF call.payment_count = 1 THEN "1 payment"
                            ELSE ToString(call.payment_count) \o " payments"
            head == "This " \o StatusWord(call.successful) \o " transaction contains "
                        \o payment_text
        IN \E noun \in {"operation", "operations", "operation(s)"} :
              ret.value = head \o ". " \o ToString(call.skipped) \o " other " \o noun
                              \o " were skipped."

\* C3 (amended): the status word is "successful" iff successful; with no
\* payment the summary is "This {status} transaction contains {skipped}
\* operation(s) that Stellar Explain does not yet support." (noun singular
\* for 1); otherwise "1 payment" or "{N} payments", followed when skipped > 0 by
\* ". 1 other operation was skipped" for one and ". {M} other operations were
\* skipped" for more, and a final "."; two payments and three unsupported
\* operations give skipped_operations = 3 and both clauses.
C3_SummaryFormat ==
    /\ ReturnedFrom("build_transaction_summary") =>
          LET st == StatusWord(call.successful)
              n == call.payment_count
              m == call.skipped
          IN ret.value =
                IF n = 0
                THEN "This " \o st \o " transaction contains " \o ToString(m)
                         \o (IF m = 1 THEN " operation" ELSE " operations")
                         \o " that Stellar Explain does not yet support."
                ELSE "This " \o st \o " transaction contains "
                         \o (IF n = 1 THEN "1 payment" ELSE ToString(n) \o " payments")
                         \o (IF m = 0 THEN ""
                             ELSE IF m = 1 THEN ". 1 other operation was skipped"
                             ELSE ". " \o ToString(m) \o " other operations were skipped")
                         \o "."
    /\ (ReturnedFrom("explain_transaction") /\ ret.kind = "value"
           /\ call.transaction.operations = ScenarioCOperations) =>
          /\ ret.value.value.skipped_operations = 3
          /\ ret.value.value.summary =
                "This " \o StatusWord(call.transaction.successful)
                    \o " transaction contains 2 payments. 3 other operations were skipped."

C3_Witness ==
    /\ ReturnedFrom("build_transaction_summary")
    /\ call.payment_count = 2 /\ call.skipped = 1 /\ ~call.successful
    /\ ret.value = "This failed transaction contains 2 payments. 1 other operation was skipped."

\* The display of an address as the claim describes it.
LabelledDisplay(address) ==
    IF resolve_label(address).some
    THEN resolve_label(address).v \o " (" \o address \o ")"
    ELSE address

\* C4: explain_payment gives summary "<from> sent <amount> <asset> to <to>",
\* from being the source account or "Unknown" when it is absent, each address
\* shown as "Label (address)" when the lookup resolves it and raw when it does
\* not; the from, to and amount fields hold the raw values.
C4_PaymentSummary ==
    ReturnedFrom("explain_payment") =>
        LET op == call.op
            from == IF op.source_account.some THEN op.source_account.v ELSE "Unknown"
            e == ret.value
        IN /\ ret.kind = "value"
           /\ e.summary = LabelledDisplay(from) \o " sent " \o op.amount \o " " \o e.asset
                              \o " to " \o LabelledDisplay(op.destination)
           /\ e.from = from
           /\ e.to = op.destination
           /\ e.amount = op.amount

C4_Witness ==
    /\ ReturnedFrom("explain_payment")
    /\ call.op.source_account = Some(KRAKEN_LOWER_PADDED)
    /\ call.op.destination = NOT_IN_MAP
    /\ call.op.asset_type = "native"
    /\ ret.value.summary = "Kraken (" \o KRAKEN_LOWER_PADDED \o ") sent 500.0000000 XLM (native) to "
                               \o NOT_IN_MAP
    /\ ret.value.from = KRAKEN_LOWER_PADDED

\* C5: in explain_transaction every payment explanation carries a fee note
\* when fee stats were supplied and none when they were not.
C5_FeeNoteFollowsFeeStats ==
    (ReturnedFrom("explain_transaction") /\ ret.kind = "value" /\ ret.value.ok) =>
        \A i \in 1..Len(ret.value.value.payment_explanations) :
            ret.value.value.payment_explanations[i].fee_note.some <=> call.fee_stats.some

\* C6: is_high_fee(fee) is true if and only if fee > 5 x base_fee, the
\* product taken in the integers, for all fee and base_fee of the width.
C6_HighFeeIffAboveFiveTimesBase ==
    ReturnedFrom("is_high_fee") =>
        ret = Returned(call.fee > 5 * call.stats.base_fee)

\* C7: explain_fee always returns a message; without fee stats it is "A fee of
\* X XLM was charged."; with them it ends in "standard network fee" when
\* fee_charged <= 5 x base_fee, and otherwise in "above average -- Nx the base
\* fee" with N = fee_charged div max(base_fee, 1).
C7_FeeExplanation ==
    ReturnedFrom("explain_fee") =>
        LET fee == call.fee_charged
            head == "A fee of " \o stroops_to_xlm(fee) \o " XLM was charged."
        IN /\ ret.kind = "value"
           /\ ret.value # ""
           /\ ret.value =
                IF ~call.fee_stats.some THEN head
                ELSE IF fee <= 5 * call.fee_stats.v.base_fee
                THEN head \o " This is a standard network fee."
                ELSE head \o " This is above average " \o EM_DASH \o " "
                         \o ToString(fee \div max(call.fee_stats.v.base_fee, 1))
                         \o "x the base fee."

\* C8: in get_tx_explanation the three fetches complete in any order and the
\* explainer is invoked exactly when the transaction fetch and the operations
\* fetch have both succeeded: not before both resolved, not when either
\* failed (the request returns that fetch's error), whatever the fee stats
\* fetch gave; a failed fee stats fetch does not fail the request, the
\* explainer is invoked with no fee stats.
C8_ExplainerAfterBothFetches ==
    LET tx_ok == IsResolved(tx_res) /\ tx_res.v.ok
        ops_ok == IsResolved(ops_res) /\ ops_res.v.ok
    IN /\ Len(explainer_calls) <= 1
       /\ explainer_calls # <<>> => (tx_ok /\ ops_ok)
       /\ (h_pc = "done" /\ hash_valid) =>
             /\ (Len(explainer_calls) = 1) <=> (tx_ok /\ ops_ok)
             /\ ~tx_ok =>
                   response.result = Err(AppError_from_HorizonError(tx_res.v.err))
             /\ (tx_ok /\ ~ops_ok) =>
                   response.result = Err(AppError_from_HorizonError(ops_res.v.err))
             /\ (tx_ok /\ ops_ok) =>
                   /\ explainer_calls[1].fee_stats = fee_res.v
                   /\ Len(ops_res.v.value) > 0 => response.result.ok

\* The fee stats fetch failed first, the transaction fetch resolved last, and
\* the explainer ran without fee stats.
C8_Witness ==
    /\ h_pc = "done"
    /\ resolved_order = <<"fee", "ops", "tx">>
    /\ fee_res = Resolved(None)
    /\ Len(explainer_calls) = 1
    /\ explainer_calls[1].fee_stats = None
    /\ response.result.ok

ClaimedKind(type_i) ==
    CASE type_i = "payment" -> "Payment"
      [] type_i = "set_options" -> "SetOptions"
      [] type_i = "create_account" -> "CreateAccount"
      [] type_i = "change_trust" -> "ChangeTrust"
      [] type_i \in {"manage_offer", "manage_sell_offer", "manage_buy_offer"} -> "ManageOffer"
      [] type_i \in {"path_payment_strict_send", "path_payment_strict_receive"} -> "PathPayment"
      [] type_i = "clawback" -> "Clawback"
      [] type_i = "clawback_claimable_balance" -> "ClawbackClaimableBalance"
      [] OTHER -> "Other"

\* C9: Operation::from(HorizonOperation) never fails and yields the variant
\* that the type discriminant alone determines (manage_offer and
\* manage_sell_offer give ManageOffer tagged Sell, manage_buy_offer tagged Buy,
\* the two path payments their tag, any unknown discriminant Other carrying
\* the wire type name); Operation::id() is the wire record's id.
C9_MapperIsTotalByDiscriminant ==
    ReturnedFrom("Operation_from") =>
        LET t == call.op.type_i
            o == ret.value
        IN /\ ret.kind = "value"
           /\ o.kind = ClaimedKind(t)
           /\ o.kind = "ManageOffer" =>
                 o.offer_type = (IF t = "manage_buy_offer" THEN "Buy" ELSE "Sell")
           /\ o.kind = "PathPayment" =>
                 o.payment_type = (IF t = "path_payment_strict_send" THEN "StrictSend"
                                   ELSE "StrictReceive")
           /\ o.kind = "Other" => o.operation_type = t
           /\ Operation_id(o) = call.op.id

C9_Witness ==
    /\ ReturnedFrom("Operation_from")
    /\ call.op.type_i = "manage_sell_offer"
    /\ call.op.id = "2"
    /\ ret.value.kind = "ManageOffer"
    /\ ret.value.offer_type = "Sell"
    /\ ret.value.id = "2"

\* C10 as stated: 'native' gives "XLM (native)", code and issuer give
\* "CODE (ISSUER)", a code alone gives the code, and every triple whose type
\* is not 'native' and that has no code gives "Unknown".
C10_UnknownWheneverNotNativeAndNoCode ==
    ReturnedFrom("format_asset") =>
        ret.value =
            IF call.asset_type = Some("native") THEN "XLM (native)"
            ELSE IF call.asset_code.some /\ call.asset_issuer.some
            THEN call.asset_code.v \o " (" \o call.asset_issuer.v \o ")"
            ELSE IF call.asset_code.some THEN call.asset_code.v
            ELSE "Unknown"

\* The asset string of the amended claim, for an optional type.
AmendedAsset(asset_type, asset_code, asset_issuer) ==
    IF ~asset_type.some \/ asset_type.v = "native" THEN "XLM (native)"
    ELSE IF asset_code.some /\ asset_issuer.some
    THEN asset_code.v \o " (" \o asset_issuer.v \o ")"
    ELSE IF asset_code.some THEN asset_code.v
    ELSE "Unknown"

\* C10 (amended): type 'native' or an absent type gives "XLM (native)",
\* whatever code and issuer are; with a type that is present and not 'native',
\* code and issuer give "CODE (ISSUER)", a code alone gives the code, and no
\* code gives "Unknown".  The payment explainer, whose type is never absent,
\* formats the same way.
C10_AssetFormat ==
    /\ ReturnedFrom("format_asset") =>
          ret.value = AmendedAsset(call.asset_type, call.asset_code, call.asset_issuer)
    /\ ReturnedFrom("explain_payment") =>
          ret.value.asset = AmendedAsset(Some(call.op.asset_type), call.op.asset_code,
                                         call.op.asset_issuer)

C10_Witness ==
    /\ ReturnedFrom("format_asset")
    /\ call.asset_type = None
    /\ call.asset_code = Some("USDC")
    /\ call.asset_issuer = Some("GISSUER")
    /\ ret.value = "XLM (native)"

(***************************************************************************)
(* C11: explain_manage_offer returns exactly one of the actions new,       *)
(* update, cancel.  The action is "cancel", with the summary               *)
(* "<seller> cancelled their existing offer #<offer_id>", if and only if   *)
(* amount is the string "0" and offer_id > 0, whatever the Sell/Buy tag    *)
(* and the price; otherwise it is "new" when offer_id = 0 and "update"     *)
(* when offer_id > 0.                                                      *)
(***************************************************************************)
C11_ManageOfferAction ==
    ReturnedFrom("explain_manage_offer") =>
        LET op == call.op
            e == ret.value
            cancels == op.amount = "0" /\ op.offer_id > 0
        IN /\ e.action \in {"new", "update", "cancel"}
           /\ (e.action = "cancel") <=> cancels
           /\ cancels =>
                  e.summary = op.seller \o " cancelled their existing offer #"
                                  \o ToString(op.offer_id)
           /\ ~cancels /\ op.offer_id = 0 => e.action = "new"
           /\ ~cancels /\ op.offer_id > 0 => e.action = "update"

\* A buy offer with a price is cancelled.
C11_Witness ==
    /\ ReturnedFrom("explain_manage_offer")
    /\ call.op.offer_type = "Buy" /\ call.op.price = "0.10"
    /\ call.op.amount = "0" /\ call.op.offer_id = 42
    /\ ret.value.action = "cancel"
    /\ ret.value.summary = "GAAAA cancelled their existing offer #42"

(***************************************************************************)
(* C12: explain_change_trust sets is_removal exactly when limit is the     *)
(* string "0".  A removal has the summary                                  *)
(* "<trustor> removed trust for <asset_code>."; every other limit gives    *)
(* "<trustor> opted in to hold up to <limit> <asset_code> issued by        *)
(* <asset_issuer>.".                                                       *)
(***************************************************************************)
C12_ChangeTrustRemoval ==
    ReturnedFrom("explain_change_trust") =>
        LET op == call.op
            e == ret.value
        IN /\ e.is_removal <=> (op.limit = "0")
           /\ op.limit = "0" =>
                  e.summary = op.trustor \o " removed trust for " \o op.asset_code \o "."
           /\ op.limit # "0" =>
                  e.summary = op.trustor \o " opted in to hold up to " \o op.limit \o " "
                                  \o op.asset_code \o " issued by " \o op.asset_issuer
                                  \o "."

\* A limit that is zero as a number, but not the string "0", is not a removal.
C12_Witness ==
    /\ ReturnedFrom("explain_change_trust")
    /\ call.op.limit = "0.0000000" /\ call.op.trustor = "GAAAA"
    /\ call.op.asset_code = "USDC" /\ call.op.asset_issuer = "GISSUER"
    /\ ~ret.value.is_removal
    /\ ret.value.summary = "GAAAA opted in to hold up to 0.0000000 USDC issued by GISSUER."

\* The summary of a path payment without its path description.
ClaimedConversion(op, sender) ==
    IF op.send_asset # op.dest_asset
    THEN sender \o " sent " \o op.send_amount \o " " \o op.send_asset
             \o " which was converted to " \o op.dest_amount \o " " \o op.dest_asset
             \o " received by " \o op.destination
    ELSE sender \o " sent " \o op.send_amount \o " " \o op.send_asset \o " to "
             \o op.destination

(***************************************************************************)
(* C13: the summary of explain_path_payment holds the conversion text     *)
(* ("which was converted to <dest_amount> <dest_asset> received by         *)
(* <dest>") exactly when send_asset differs from dest_asset.               *)
(* path_description is absent exactly when the path is empty; otherwise it *)
(* is "via N intermediate asset" for N = 1 and "via N intermediate assets" *)
(* for N > 1, and it is appended to the summary.                           *)
(***************************************************************************)
C13_PathPaymentSummary ==
    ReturnedFrom("explain_path_payment") =>
        LET op == call.op
            e == ret.value
            n == Len(op.path)
            via == "via " \o ToString(n) \o " intermediate "
                       \o (IF n = 1 THEN "asset" ELSE "assets")
        IN /\ ~e.path_description.some <=> (n = 0)
           /\ n > 0 => e.path_description = Some(via)
           /\ n = 0 => e.summary = ClaimedConversion(op, e.sender)
           /\ n > 0 => e.summary = ClaimedConversion(op, e.sender) \o " " \o via

\* Scenario D (same asset, empty path), and a conversion over one hop.
C13_Witness ==
    /\ ReturnedFrom("explain_path_payment")
    /\ call.op.source_account = Some("GAAAA")
    /\ \/ /\ call.op.send_asset = "XLM (native)" /\ call.op.dest_asset = "XLM (native)"
          /\ call.op.path = <<>>
          /\ ret.value.path_description = None
          /\ ret.value.summary = "GAAAA sent 50 XLM (native) to GBBB"
       \/ /\ call.op.send_asset = "XLM (native)" /\ call.op.dest_asset = "USDC (GISSUER)"
          /\ call.op.dest_amount = "45"
          /\ call.op.path = <<"EURT (GISSUER)">>
          /\ ret.value.summary =
                 "GAAAA sent 50 XLM (native) which was converted to 45 USDC (GISSUER) received by GBBB via 1 intermediate asset"

RECURSIVE Interleave(_, _)
\* items[1] seps[1] items[2] seps[2] ... items[n], for Len(seps) = Len(items) - 1.
Interleave(items, seps) ==
    IF Len(items) = 1 THEN items[1]
    ELSE items[1] \o seps[1] \o Interleave(Tail(items), Tail(seps))

\* The separators of the joined changes: ", " between the items, and a single
\* ", and " before the last of three or more; a bare " and " between two.
ClaimedSeparators(n) ==
    IF n = 2 THEN <<" and ">>
    ELSE [i \in 1..(n - 1) |-> IF i = n - 1 THEN ", and " ELSE ", "]

ClaimedJoin(items) == Interleave(items, ClaimedSeparators(Len(items)))

\* No field that explain_set_options recognises is set.
NoFieldSet(op) ==
    /\ ~op.inflation_dest.some /\ ~op.master_weight.some
    /\ ~op.low_threshold.some /\ ~op.med_threshold.some /\ ~op.high_threshold.some
    /\ ~op.home_domain.some /\ ~op.set_flags.some /\ ~op.clear_flags.some
    /\ ~op.signer_key.some /\ ~op.signer_weight.some

(***************************************************************************)
(* C14: a set_options operation with no recognised field set has an empty  *)
(* changes list and a summary ending in "no recognised changes.".  For     *)
(* every set_options operation the summary is the "no recognised changes." *)
(* form exactly when changes is empty; otherwise it is                     *)
(* "<account> updated their account: " followed by the joined changes.     *)
(***************************************************************************)
C14_SetOptionsSummary ==
    ReturnedFrom("explain_set_options") =>
        LET op == call.op
            e == ret.value
            no_changes == e.account
                              \o " submitted a set_options operation with no recognised changes."
        IN /\ NoFieldSet(op) => e.changes = <<>> /\ e.summary = no_changes
           /\ (e.summary = no_changes) <=> (e.changes = <<>>)
           /\ e.changes # <<>> =>
                  e.summary = e.account \o " updated their account: "
                                  \o ClaimedJoin(e.changes)

\* No field set; and a single change.
C14_Witness ==
    /\ ReturnedFrom("explain_set_options")
    /\ call.op.source_account = Some("GAAAA")
    /\ \/ /\ NoFieldSet(call.op)
          /\ ret.value.changes = <<>>
          /\ ret.value.summary =
                 "GAAAA submitted a set_options operation with no recognised changes."
       \/ /\ ret.value.changes = <<"cleared the home domain">>
          /\ ret.value.summary = "GAAAA updated their account: cleared the home domain"

OtherOperationLists ==
    {<<[kind |-> "Other", id |-> "9", operation_type |-> "bump_sequence"]>>,
     <<PaymentOperation("9", None, DEST_UNKNOWN, "native", None, None, "1.0")>>,
     ScenarioCOperations}

(***************************************************************************)
(* C16: in the result of explain_transaction, memo_explanation is absent   *)
(* exactly when the transaction has no memo or its memo is the None        *)
(* variant; it is present for Text, Id, Hash and Return memos.  It does    *)
(* not depend on the payment operations nor on the fee stats: the same     *)
(* transaction with other operations and other fee stats has the same     *)
(* memo_explanation.                                                       *)
(***************************************************************************)
C16_MemoExplanationFollowsMemo ==
    (ReturnedFrom("explain_transaction") /\ ret.kind = "value" /\ ret.value.ok) =>
        LET tx == call.transaction
            e == ret.value.value
        IN /\ ~e.memo_explanation.some <=> (~tx.memo.some \/ tx.memo.v.variant = "None")
           /\ (tx.memo.some /\ tx.memo.v.variant \in {"Text", "Id", "Hash", "Return"})
                  => e.memo_explanation.some
           /\ \A ops \in OtherOperationLists, st \in {None, Some(default_network_fees)} :
                  explain_transaction([tx EXCEPT !.operations = ops], st)
                          .value.memo_explanation
                      = e.memo_explanation

\* An ID memo on a transaction without payments, explained with fee stats.
C16_Witness ==
    /\ ReturnedFrom("explain_transaction") /\ ret.kind = "value" /\ ret.value.ok
    /\ call.transaction.memo = Some(Memo_Id(12345))
    /\ CountPayments(call.transaction.operations) = 0
    /\ call.fee_stats.some
    /\ ret.value.value.memo_explanation =
           Some("This transaction includes an ID memo: 12345. This is typically used as a reference number, customer ID, or invoice number.")

(***************************************************************************)
(* C17: Memo::text(s) returns a Text memo holding s exactly when the UTF-8 *)
(* encoding of s has at most 28 bytes: 28 bytes are accepted, 29 are       *)
(* rejected and give no value.  Every Text memo the constructor builds     *)
(* therefore holds at most 28 bytes.                                       *)
(***************************************************************************)
C17_TextMemoAtMost28Bytes ==
    ReturnedFrom("Memo_text") =>
        LET bytes == as_bytes_len(call.text) IN
        /\ bytes <= 28 => ret.value = Some(Memo_Text(call.text))
        /\ bytes > 28 => ret.value = None
        /\ ret.value.some =>
               ret.value.v.variant = "Text" /\ as_bytes_len(ret.value.v.v) <= 28

\* Fourteen two-byte characters (28 bytes) are accepted; fifteen characters
\* that take 29 or 30 bytes are rejected.
C17_Witness ==
    /\ ReturnedFrom("Memo_text")
    /\ \/ /\ call.text = [i \in 1..14 |-> 233]
          /\ ret.value = Some(Memo_Text(call.text))
       \/ /\ Len(call.text) = 15 /\ as_bytes_len(call.text) \in {29, 30}
          /\ ret.value = None

\* The quotient and the remainder of the integer written by b by 10^7, written
\* as "<quotient>.<remainder in seven digits>".
ClaimedXlm(b) ==
    LET c == chunks_of(Len(b))
        d == long_div(Zeros(CHUNK_BITS * c - Len(b)) \o b, c)
    IN bits_to_decimal(strip_zeros(d.q)) \o "." \o Pad7(d.r)

(***************************************************************************)
(* C18: for every u64 stroops value, stroops_to_xlm returns the exact      *)
(* fixed-point quotient by 10,000,000: the integer part is stroops div     *)
(* 10,000,000 and the fraction is stroops mod 10,000,000 in exactly seven  *)
(* digits.                                                                 *)
(***************************************************************************)
C18_StroopsToXlmIsExact ==
    ReturnedFrom("stroops_to_xlm") => ret.value = ClaimedXlm(call.stroops)

RECURSIVE bits_value(_)
\* The integer written by a short bit sequence.
bits_value(b) ==
    IF b = <<>> THEN 0 ELSE 2 * bits_value(SubSeq(b, 1, Len(b) - 1)) + b[Len(b)]

\* On the stroops values the rest of the model meets (at most U64_BITS bits)
\* the f64 computation and stroops_to_xlm agree.
SmallStroopsAreExact ==
    (ReturnedFrom("stroops_to_xlm") /\ Len(call.stroops) <= U64_BITS) =>
        ret.value = stroops_to_xlm(bits_value(call.stroops))

\* The five numeric fields of a fee-stats body.
FeeStatsFields(raw) ==
    <<raw.last_ledger_base_fee, raw.fee_charged.min, raw.fee_charged.max,
      raw.fee_charged.mode, raw.fee_charged.p90>>

(***************************************************************************)
(* C19: when the fee-stats body is parsed, a numeric field among base_fee, *)
(* min_fee, max_fee, mode_fee and p90_fee that does not parse fails the    *)
(* whole fetch: no FeeStats is returned, and no field is replaced by zero  *)
(* or by another value.  A FeeStats that is returned holds the five parsed *)
(* values.                                                                 *)
(***************************************************************************)
C19_UnparsableFieldFailsFetch ==
    ReturnedFrom("fee_stats_from_raw") =>
        LET f == FeeStatsFields(call.raw)
            parsed == [i \in 1..5 |-> str_parse_u64(f[i])]
        IN /\ (\E i \in 1..5 : ~parsed[i].some) => ret.value = None
           /\ (\A i \in 1..5 : parsed[i].some) =>
                  ret.value = Some(FeeStats_new(parsed[1].v, parsed[2].v, parsed[3].v,
                                                parsed[4].v, parsed[5].v))

\* A step in which thread t's call of get(key) returns.
GetReturns(t, key) ==
    /\ threads'[t].pc = "idle"
    /\ threads'[t].op = CacheCall("get", key)
    /\ \/ threads[t].pc = "get_write"
       \/ threads[t].op # threads'[t].op
       \/ threads[t].ret # threads'[t].ret

\* C20: TransactionCache::get returns None when the key has no entry or its
\* entry's age exceeds its TTL, and in the latter case the entry is removed;
\* a value it returns is never older than its TTL; for an entry that has not
\* expired it returns the value most recently inserted under that key.  This
\* holds after any interleaving of insert, insert_with_ttl, get, remove and
\* ticks of the clock.
C20_GetReturnsOnlyLiveEntries ==
    [][\A t \in Threads, key \in CacheKeys :
         GetReturns(t, key) =>
             LET entry == cache[key]
                 result == threads'[t].ret.value
                 live == entry.some /\ now - entry.v.created_at <= entry.v.ttl
             IN /\ ~live => result = None /\ cache'[key] = None
                /\ live => /\ result = Some(entry.v.value)
                           /\ last_insert[key] = Some(entry.v.value)
                           /\ cache'[key] = entry
                /\ result.some => live]_vars

\* A get has returned None for a key that was inserted, after its entry
\* outlived its TTL, and the entry is gone; another get has returned the
\* second value inserted under its key.
C20_Witness ==
    /\ threads["t1"].pc = "idle" /\ threads["t1"].op.name = "get"
    /\ threads["t1"].ret = Returned(None)
    /\ last_insert[threads["t1"].op.key].some
    /\ cache[threads["t1"].op.key] = None
    /\ now > default_ttl
    /\ threads["t2"].pc = "idle" /\ threads["t2"].op.name = "get"
    /\ threads["t2"].ret = Returned(Some("second"))
    /\ cache[threads["t2"].op.key].some

\* What get(key) returns when it runs, both critical sections, on `map` at
\* `instant`.
GetWouldReturn(map, key, instant) ==
    IF contains_key(map, key, instant) THEN Some(map[key].v.value) ELSE None

\* What remove(key) returns when it runs on `map`.
RemoveWouldReturn(map, key) ==
    IF map[key].some THEN Some(map[key].v.value) ELSE None

CacheKeyParts == {<<"hash1", "Public">>, <<"hash1", "Testnet">>, <<"hash2", "Public">>}

\* C21: the cache is keyed by the pair (transaction hash, network): two keys
\* are the same key only if both the hash and the network agree, and a call
\* made under one key (an insert that adds or updates, a remove, a get that
\* removes an expired entry) changes neither the entry of any other key nor
\* what get, contains_key and remove return for it.
C21_KeysAreIsolated ==
    /\ \A p, q \in CacheKeyParts :
         CacheKey_new(p[1], p[2]) = CacheKey_new(q[1], q[2]) => p = q
    /\ [][now' = now =>
            LET key == threads'[Owner].op.key IN
            \A other \in CacheKeys \ {key} :
                /\ cache'[other] = cache[other]
                /\ GetWouldReturn(cache', other, now') = GetWouldReturn(cache, other, now)
                /\ contains_key(cache', other, now') = contains_key(cache, other, now)
                /\ RemoveWouldReturn(cache', other) = RemoveWouldReturn(cache, other)]_vars

\* The three keys hold entries at once (same hash on two networks, two hashes
\* on one network), with different values, and an expired entry of one of
\* them has just been removed by get while the other two stayed.
C21_Witness ==
    /\ threads[Owner].pc = "idle"
    /\ threads[Owner].op = CacheCall("get", CacheKey_new("hash1", "Testnet"))
    /\ threads[Owner].ret = Returned(None)
    /\ last_insert[CacheKey_new("hash1", "Testnet")].some
    /\ cache[CacheKey_new("hash1", "Testnet")] = None
    /\ GetWouldReturn(cache, CacheKey_new("hash1", "Public"), now) = Some("first")
    /\ GetWouldReturn(cache, CacheKey_new("hash2", "Public"), now) = Some("second")
    /\ len(cache) = 2

\* Two records of one thread are the same.  The results are compared only
\* when the calls are the same, so only results of one type meet.
SameThread(a, b) == a.pc = b.pc /\ a.op = b.op /\ a.ret = b.ret

\* Thread t has taken the step.
Acted(t) == ~SameThread(threads[t], threads'[t])

\* A step that stores an entry under `key`: an insert or an insert_with_ttl.
InsertsUnder(key) == cache'[key] # cache[key] /\ cache'[key].some

InsertReturned(t, key, was_new) ==
    /\ threads'[t].pc = "idle"
    /\ threads'[t].op.name \in {"insert", "insert_with_ttl"}
    /\ threads'[t].op.key = key
    /\ threads'[t].ret = Returned(was_new)
    /\ threads'[t].op.name = "insert" => cache'[key].v.ttl = default_ttl
    /\ threads'[t].op.name = "insert_with_ttl" => cache'[key].v.ttl \in CustomTtls

\* C22: insert and insert_with_ttl return true when the map held no entry for
\* the key and false when they replace one; either way the entry now holds
\* the inserted value and a TTL that starts at the time of the call, so a get
\* that follows returns the inserted value.
C22_InsertReplacesAndReports ==
    [][\A key \in CacheKeys :
         InsertsUnder(key) =>
             /\ cache'[key].v.value = last_insert'[key].v
             /\ cache'[key].v.created_at = now
             /\ \A t \in Threads : Acted(t) => InsertReturned(t, key, ~cache[key].some)
             /\ \E t \in Threads : InsertReturned(t, key, ~cache[key].some)
             /\ GetWouldReturn(cache', key, now') = last_insert'[key]]_vars

\* An insert has replaced an older entry holding another value: it returned
\* false, the entry holds the new value and its TTL starts now, later than
\* the first insert; an insert_with_ttl on a key without entry returned true.
C22_Witness ==
    /\ threads["t1"].pc = "idle"
    /\ threads["t1"].op = CacheCall("insert", CacheKey_new("hash1", "Public"))
    /\ threads["t1"].ret = Returned(FALSE)
    /\ cache[CacheKey_new("hash1", "Public")] = Some(CacheEntry_new("second", default_ttl, now))
    /\ now > default_ttl
    /\ threads["t2"].pc = "idle"
    /\ threads["t2"].op = CacheCall("insert_with_ttl", CacheKey_new("hash1", "Testnet"))
    /\ threads["t2"].ret = Returned(TRUE)
    /\ cache[CacheKey_new("hash1", "Testnet")].some

\* The keys some thread has inserted.
InsertedKeys == {k \in CacheKeys : last_insert[k].some}

AllThreadsFinished == \A t \in Threads : threads[t].pc = "idle"

\* C23: with threads that insert and get concurrently and no entry expiring,
\* no insert is lost or duplicated: once every thread has finished, the cache
\* holds one entry for each key that was inserted and no other (len is the
\* number of distinct keys inserted), contains_key holds for each of them,
\* and the entry of a key holds a value that was written under that key (the
\* one written last).
C23_NoInsertLost ==
    AllThreadsFinished =>
        /\ len(cache) = Cardinality(InsertedKeys)
        /\ \A k \in CacheKeys :
             IF k \in InsertedKeys
             THEN /\ contains_key(cache, k, now)
                  /\ cache[k].v.value \in CacheValues
                  /\ cache[k].v.value = last_insert[k].v
             ELSE cache[k] = None

\* All threads have finished, the three keys were inserted and the cache
\* holds three entries; the last insert of one thread replaced an entry
\* (it returned false), and the other thread's get of that key returned the
\* value written last.
C23_Witness ==
    /\ AllThreadsFinished
    /\ len(cache) = 3
    /\ threads["t1"].op = CacheCall("insert", CacheKey_new("hash1", "Public"))
    /\ threads["t1"].ret = Returned(FALSE)
    /\ threads["t2"].op = CacheCall("get", CacheKey_new("hash1", "Public"))
    /\ threads["t2"].ret = Returned(Some("second"))

HexDigits == {48, 49, 50, 51, 52, 53, 54, 55, 56, 57,
              65, 66, 67, 68, 69, 70, 97, 98, 99, 100, 101, 102}

\* The hash is exactly 64 hexadecimal characters.
Is64HexCharacters(h) == Len(h) = 64 /\ \A i \in 1..Len(h) : h[i] \in HexDigits

NoFetch == [state |-> "none"]

\* C24: in the /tx/{hash} handler a hash that is not exactly 64 hexadecimal
\* characters is answered with a BadRequest error of status 400, no fetch of
\* the transaction, the operations or the fee stats is ever issued, and the
\* explainer is not invoked; a hash of 64 hexadecimal characters is not
\* rejected this way.
C24_InvalidHashRejectedBeforeFetch ==
    /\ hash_valid <=> Is64HexCharacters(path_hash)
    /\ ~Is64HexCharacters(path_hash) =>
         /\ h_pc \in {"start", "done"}
         /\ tx_res = NoFetch /\ ops_res = NoFetch /\ fee_res = NoFetch
         /\ explainer_calls = <<>>
         /\ h_pc = "done" =>
              /\ response.kind = "returned"
              /\ ~response.result.ok
              /\ response.result.err.variant = "BadRequest"
              /\ AppError_status_code(response.result.err) = 400
    /\ (Is64HexCharacters(path_hash) /\ h_pc # "start") =>
         tx_res # NoFetch /\ ops_res # NoFetch /\ fee_res # NoFetch

\* A hash of 64 bytes that is not 64 hexadecimal characters (62 letters and
\* one character of two bytes) has been rejected.
C24_Witness ==
    /\ h_pc = "done"
    /\ path_hash = Fill(97, 62) \o <<233>>
    /\ ~response.result.ok
    /\ AppError_status_code(response.result.err) = 400
    /\ tx_res = NoFetch

\* A step in which thread t's get runs self.cache.remove(key).
DashGetRemoves(t) == threads[t].pc = "get_remove" /\ threads'[t].pc = "idle"

\* C25: get of the cache in services/cache.rs removes an entry only if that
\* entry is expired: whatever inserts other threads make on the key while
\* the get runs, the entry that get removes is older than the TTL, so a value
\* that was inserted and has not expired is still there for the next get.
C25_GetRemovesOnlyExpired ==
    [][\A t \in Threads :
         DashGetRemoves(t) =>
             LET key == threads[t].op.key
                 entry == cache[key]
             IN entry.some => now - entry.v.inserted_at > cache_ttl]_vars

\* The fields of a set_options operation, in the order of the claim; the
\* signer's key and weight make one change.
SetOptionsFields ==
    <<"inflation_dest", "master_weight", "low_threshold", "med_threshold",
      "high_threshold", "home_domain", "set_flags", "clear_flags", "signer">>

\* The operation with none of its optional fields set.
WithoutFields(op) ==
    [op EXCEPT !.inflation_dest = None, !.master_weight = None, !.low_threshold = None,
               !.med_threshold = None, !.high_threshold = None, !.home_domain = None,
               !.set_flags = None, !.clear_flags = None, !.signer_key = None,
               !.signer_weight = None]

\* The operation with only the field f set as it is in op.
OnlyField(op, f) ==
    LET blank == WithoutFields(op) IN
    CASE f = "inflation_dest" -> [blank EXCEPT !.inflation_dest = op.inflation_dest]
      [] f = "master_weight" -> [blank EXCEPT !.master_weight = op.master_weight]
      [] f = "low_threshold" -> [blank EXCEPT !.low_threshold = op.low_threshold]
      [] f = "med_threshold" -> [blank EXCEPT !.med_threshold = op.med_threshold]
      [] f = "high_threshold" -> [blank EXCEPT !.high_threshold = op.high_threshold]
      [] f = "home_domain" -> [blank EXCEPT !.home_domain = op.home_domain]
      [] f = "set_flags" -> [blank EXCEPT !.set_flags = op.set_flags]
      [] f = "clear_flags" -> [blank EXCEPT !.clear_flags = op.clear_flags]
      [] f = "signer" -> [blank EXCEPT !.signer_key = op.signer_key,
                                         !.signer_weight = op.signer_weight]

\* What the field f alone contributes to the changes of op.
ChangesOfField(op, f) == explain_set_options(OnlyField(op, f)).changes

RECURSIVE ChangesInOrder(_, _)
ChangesInOrder(op, i) ==
    IF i > Len(SetOptionsFields) THEN <<>>
    ELSE ChangesOfField(op, SetOptionsFields[i]) \o ChangesInOrder(op, i + 1)

\* C26: explain_set_options lists the change descriptions in one order,
\* whatever fields are set: inflation destination, master-key weight, low,
\* medium and high threshold, home domain, set_flags, clear_flags, signer.
\* Each field contributes at most one description, the one it contributes
\* when it is the only field set, so there are never more than 9 and the
\* order of two descriptions does not depend on the other fields.
C26_ChangesInFixedOrder ==
    ReturnedFrom("explain_set_options") =>
        LET op == call.op
            changes == ret.value.changes
        IN /\ \A i \in 1..Len(SetOptionsFields) :
                Len(ChangesOfField(op, SetOptionsFields[i])) <= 1
           /\ changes = ChangesInOrder(op, 1)
           /\ Len(changes) <= 9

\* All nine changes at once.
C26_Witness ==
    /\ ReturnedFrom("explain_set_options")
    /\ Len(ret.value.changes) = 9
    /\ ret.value.changes[1] = "set inflation destination to " \o DEST_UNKNOWN
    /\ ret.value.changes[2] = "disabled the master key"
    /\ ret.value.changes[3] = "set low threshold to 1"
    /\ ret.value.changes[4] = "set medium threshold to 2"
    /\ ret.value.changes[5] = "set high threshold to 3"
    /\ ret.value.changes[6] = "cleared the home domain"
    /\ ret.value.changes[7] = "enabled account flag(s): " \o describe_flags(16)
    /\ ret.value.changes[8] = "disabled account flag(s): " \o describe_flags(2)
    /\ ret.value.changes[9] = "removed signer " \o SIGNER_SHORT

\* Thread t is between the two critical sections of get: it has released the
\* read lock and waits for the write lock.
InGap(t) == threads[t].pc = "get_write"

\* A step in which thread t's get leaves the gap and returns.
GetLeavesGap(t) == InGap(t) /\ threads'[t].pc = "idle"

\* C27: get releases the read lock before it takes the write lock.  Whatever
\* insert, insert_with_ttl or remove other threads run on the key in that
\* gap, the write-lock section removes the entry only if the entry it finds
\* then is expired, and returns a value only if that entry is not expired:
\* an entry inserted in the gap is returned and stays where it is.
C27_GapDoesNotLoseFreshEntries ==
    [][\A t \in Threads :
         GetLeavesGap(t) =>
             LET key == threads[t].op.key
                 found == cache[key]
                 fresh == found.some /\ now - found.v.created_at <= found.v.ttl
                 result == threads'[t].ret.value
             IN /\ cache'[key] # found => (found.some /\ ~fresh /\ cache'[key] = None)
                /\ result.some => (fresh /\ result.v = found.v.value)
                /\ fresh => (result = Some(found.v.value) /\ cache'[key] = found)
                /\ \A other \in CacheKeys \ {key} : cache'[other] = cache[other]]_vars

\* A thread is in the gap of a get while the key holds an entry that has not
\* expired: the other thread has inserted it since the read lock was
\* released.
C27_Witness ==
    /\ InGap("t1")
    /\ threads["t1"].op.key = CacheKey_new("hash1", "Public")
    /\ cache[CacheKey_new("hash1", "Public")].some
    /\ ~is_expired(cache[CacheKey_new("hash1", "Public")].v, now)
    /\ threads["t2"].pc = "idle"
    /\ threads["t2"].op.name \in {"insert", "insert_with_ttl"}
    /\ threads["t2"].op.key = CacheKey_new("hash1", "Public")
    /\ now > 0

\* The texts of the two fee messages, for an amount and a multiplier as text.
FeeAbove(xlm, n) ==
    "A fee of " \o xlm \o " XLM was charged. This is above average "
        \o EM_DASH \o " " \o n \o "x the base fee."
FeeStandard(xlm) == "A fee of " \o xlm \o " XLM was charged. This is a standard network fee."
NoteAbove(xlm, n) ==
    "Fee paid: " \o xlm \o " XLM (above average " \o EM_DASH \o " " \o n \o "x base fee)."
NoteStandard(xlm) == "Fee paid: " \o xlm \o " XLM (standard)."

\* The amounts and multipliers a message of the model can show.
XlmTexts == {stroops_to_xlm(f) : f \in FeeValues}
MultiplierTexts ==
    {ToString(f \div max(st.base_fee, 1)) : f \in FeeValues, st \in FeeStatsValues}

FeeMessage ==
    IF call.fn = "explain_fee" THEN ret.value ELSE ret.value.fee_note.v

SaysAboveAverage(text) ==
    \E xlm \in XlmTexts, n \in MultiplierTexts : text \in {FeeAbove(xlm, n), NoteAbove(xlm, n)}

SaysStandard(text) ==
    \E xlm \in XlmTexts : text \in {FeeStandard(xlm), NoteStandard(xlm)}

\* C29: for every fee_charged and every base_fee >= 1, a fee that explain_fee
\* or explain_payment_with_fee reports as above average has a multiplier
\* fee_charged div max(base_fee, 1) of at least 5, and a fee reported as
\* standard has fee_charged div max(base_fee, 1) at most 5.
C29_MultiplierMatchesClassification ==
    (pc = "returned" /\ call.fn \in {"explain_fee", "explain_payment_with_fee"}
         /\ ret # Panicked) =>
        LET base_fee == IF call.fn = "explain_fee" THEN call.fee_stats.v.base_fee
                        ELSE call.network_fees.base_fee
            n == call.fee_charged \div max(base_fee, 1)
        IN base_fee >= 1 =>
             /\ SaysAboveAverage(FeeMessage) \/ SaysStandard(FeeMessage)
             /\ SaysAboveAverage(FeeMessage) => n >= 5
             /\ SaysStandard(FeeMessage) => n <= 5

\* Position in ops of the i-th operation of kind Payment.
PaymentIndex(ops, i) ==
    CHOOSE j \in 1..Len(ops) :
        ops[j].kind = "Payment" /\ CountPayments(SubSeq(ops, 1, j)) = i

\* C30: payment_explanations preserves the order of the operations: its i-th
\* entry is the explanation of the i-th Payment operation of the transaction,
\* so the other operations are skipped and no payment is moved or repeated.
C30_PaymentExplanationsInOperationOrder ==
    (ReturnedFrom("explain_transaction") /\ ret.kind = "value" /\ ret.value.ok) =>
        LET ops == call.transaction.operations
            e == ret.value.value.payment_explanations
        IN /\ Len(e) = CountPayments(ops)
           /\ \A i \in 1..Len(e) : e[i] = explain_payment(ops[PaymentIndex(ops, i)])

\* Two payments that differ around an operation that is skipped.
C30_Witness ==
    /\ ReturnedFrom("explain_transaction") /\ ret.kind = "value" /\ ret.value.ok
    /\ Len(call.transaction.operations) = 3
    /\ call.transaction.operations[1].kind = "Payment"
    /\ call.transaction.operations[2].kind # "Payment"
    /\ call.transaction.operations[3].kind = "Payment"
    /\ Len(ret.value.value.payment_explanations) = 2
    /\ ret.value.value.payment_explanations[1]
           = explain_payment(call.transaction.operations[1])
    /\ ret.value.value.payment_explanations[2]
           = explain_payment(call.transaction.operations[3])
    /\ ret.value.value.payment_explanations[1] # ret.value.value.payment_explanations[2]

====
